---------------------------- MODULE Spec2Model ----------------------------
(***************************************************************************)
(* Model of the stl-to-cad core of drawing-to-kcl-to-cad:                  *)
(*   - FeatureRecognizer.recognize and its five RANSAC detectors           *)
(*     (src/stl-to-cad/src/stl_to_cad/recognition/feature_recognizer.py),  *)
(*   - STLParser.parse with its ASCII and binary decoders and the vertex   *)
(*     welding (src/stl-to-cad/src/stl_to_cad/parsers/stl_parser.py).      *)
(*                                                                         *)
(* Coordinates are integers.  The plane detector is computed exactly from  *)
(* the mesh geometry (cross products, squared inequalities instead of      *)
(* norms).  For the cylinder, sphere, cone and torus detectors the closed  *)
(* form fits are real-valued; the model draws what they produce for one    *)
(* sample (degenerate, or an inlier mask and, for the sphere, how the mean *)
(* radial cosine compares with the threshold) and runs the code's control  *)
(* flow on it.  Numerical solves succeed or raise, drawn as an input.      *)
(***************************************************************************)
EXTENDS Integers, Sequences, FiniteSets, TLC

(***************************************************************************)
(* Bounds of the model.                                                    *)
(***************************************************************************)
\* ransac_iterations of every configuration the model draws
MaxIter == 2
\* the scaled-down min_points_* values are drawn from 1..MaxMin
MaxMin == 2
\* number of faces of the large mesh, the only one a torus can be found in
RingFaces == 52

(***************************************************************************)
(* config.py: FeatureRecognitionConfig                                     *)
(***************************************************************************)
\* (mutant) the cylinder detector listed before the plane detector
detection_order_CylinderFirst == <<"cylinder", "plane", "sphere", "cone", "torus">>

\* detection_order of recognize: positions 1..5
detection_order == <<"plane", "cylinder", "sphere", "cone", "torus">>

\* the minimum the torus detector and _min_points_for_type hard-code
TorusMinPoints == 50

\* ransac_threshold = 0.01 and normal_consistency_threshold = 0.95 as fractions
DefaultRansacThreshold == <<1, 100>>
DefaultNormalConsistency == <<95, 100>>

FeatureRecognitionConfig ==
    [detect_planes |-> TRUE, detect_cylinders |-> TRUE, detect_spheres |-> TRUE,
     detect_cones |-> TRUE, detect_tori |-> TRUE,
     ransac_iterations |-> MaxIter,
     ransac_threshold |-> DefaultRansacThreshold,
     min_points_plane |-> 10, min_points_cylinder |-> 20,
     min_points_sphere |-> 20, min_points_cone |-> 30,
     normal_consistency_threshold |-> DefaultNormalConsistency]

(***************************************************************************)
(* Vectors with integer coordinates.                                       *)
(***************************************************************************)
VSub(a, b) == <<a[1] - b[1], a[2] - b[2], a[3] - b[3]>>
VAdd(a, b) == <<a[1] + b[1], a[2] + b[2], a[3] + b[3]>>
Dot(a, b) == a[1] * b[1] + a[2] * b[2] + a[3] * b[3]
Cross(a, b) == <<a[2] * b[3] - a[3] * b[2],
                 a[3] * b[1] - a[1] * b[3],
                 a[1] * b[2] - a[2] * b[1]>>
Abs(x) == IF x < 0 THEN -x ELSE x
Sq(x) == x * x

RECURSIVE SumOver(_, _)
SumOver(S, f) ==
    IF S = {} THEN 0
    ELSE LET x == CHOOSE y \in S : TRUE IN f[x] + SumOver(S \ {x}, f)

(***************************************************************************)
(* Meshes (STLMesh values): vertices, faces (0-based index triples) and    *)
(* per-face normals.                                                       *)
(***************************************************************************)
\* axis-aligned unit cube, 8 vertices (index 4x+2y+z), 2 triangles per side
CubeMesh ==
    [vertices |-> << <<0,0,0>>, <<0,0,1>>, <<0,1,0>>, <<0,1,1>>,
                     <<1,0,0>>, <<1,0,1>>, <<1,1,0>>, <<1,1,1>> >>,
     faces |-> << <<0,1,3>>, <<0,3,2>>, <<4,6,7>>, <<4,7,5>>,
                  <<0,4,5>>, <<0,5,1>>, <<2,3,7>>, <<2,7,6>>,
                  <<0,2,6>>, <<0,6,4>>, <<1,5,7>>, <<1,7,3>> >>,
     normals |-> << <<-1,0,0>>, <<-1,0,0>>, <<1,0,0>>, <<1,0,0>>,
                    <<0,-1,0>>, <<0,-1,0>>, <<0,1,0>>, <<0,1,0>>,
                    <<0,0,-1>>, <<0,0,-1>>, <<0,0,1>>, <<0,0,1>> >>]

\* a flat plate in z = 0: four coplanar triangles, all normals +z
PlateMesh ==
    [vertices |-> << <<0,0,0>>, <<3,0,0>>, <<6,0,0>>,
                     <<0,3,0>>, <<3,3,0>>, <<6,3,0>> >>,
     faces |-> << <<0,1,3>>, <<1,4,3>>, <<1,2,4>>, <<2,5,4>> >>,
     normals |-> << <<0,0,1>>, <<0,0,1>>, <<0,0,1>>, <<0,0,1>> >>]

\* two parallel levels z = 0 and z = 3 of three triangles each, all normals +z
StepMesh ==
    [vertices |-> << <<0,0,0>>, <<3,0,0>>, <<0,3,0>>, <<3,3,0>>, <<6,0,0>>,
                     <<0,0,3>>, <<3,0,3>>, <<0,3,3>>, <<3,3,3>>, <<6,0,3>> >>,
     faces |-> << <<0,1,2>>, <<1,3,2>>, <<1,4,3>>,
                  <<5,6,7>>, <<6,8,7>>, <<6,9,8>> >>,
     normals |-> << <<0,0,1>>, <<0,0,1>>, <<0,0,1>>,
                    <<0,0,1>>, <<0,0,1>>, <<0,0,1>> >>]

\* three coplanar triangles in z = 0 (normals +z) and two wall triangles in
\* x = 6 (normals +x)
FoldMesh ==
    [vertices |-> << <<0,0,0>>, <<3,0,0>>, <<0,3,0>>, <<3,3,0>>,
                     <<6,0,0>>, <<6,3,0>>, <<6,0,3>>, <<6,3,3>> >>,
     faces |-> << <<0,1,2>>, <<1,3,2>>, <<1,4,3>>, <<4,5,6>>, <<5,7,6>> >>,
     normals |-> << <<0,0,1>>, <<0,0,1>>, <<0,0,1>>, <<1,0,0>>, <<1,0,0>> >>]

\* RingFaces unshared triangles around a ring (coordinates are not used: only
\* the torus detector runs on it)
RingMesh ==
    [vertices |-> [i \in 1..(3 * RingFaces) |-> <<i, (i * i) % 7, i % 3>>],
     faces |-> [f \in 1..RingFaces |-> <<3 * (f - 1), 3 * (f - 1) + 1, 3 * (f - 1) + 2>>],
     normals |-> [f \in 1..RingFaces |-> <<0, 0, 1>>]]

MeshNames == {"cube", "plate", "step", "fold", "ring"}

MeshOf(name) ==
    CASE name = "cube" -> CubeMesh
      [] name = "plate" -> PlateMesh
      [] name = "step" -> StepMesh
      [] name = "fold" -> FoldMesh
      [] name = "ring" -> RingMesh

\* STLMesh.num_faces
num_faces(m) == Len(m.faces)

(***************************************************************************)
(* recognize: the inputs of one detector call                              *)
(***************************************************************************)
\* np.array(list(remaining_faces)): the remaining faces in ascending order;
\* entry i (1-based here) is the i-th smallest remaining face
face_indices_at(S, i) == CHOOSE e \in S : Cardinality({x \in S : x < e}) = i - 1

\* (mutant) the inlier positions taken for face indices: best_inliers instead of
\* face_indices[best_inliers]
FacesOfPositions_Unmapped(S, positions) == {i - 1 : i \in positions}

\* face_indices[best_inliers]
FacesOfPositions(S, positions) == {face_indices_at(S, i) : i \in positions}

\* _get_face_points: 3 * centroid of a face (the code divides v0+v1+v2 by 3)
Centroid3(m, f) ==
    LET face == m.faces[f + 1]
    IN  VAdd(VAdd(m.vertices[face[1] + 1], m.vertices[face[2] + 1]),
             m.vertices[face[3] + 1])

\* _min_points_for_type
min_points_for_type(cfg, feature_type) ==
    CASE feature_type = "plane" -> cfg.min_points_plane
      [] feature_type = "cylinder" -> cfg.min_points_cylinder
      [] feature_type = "sphere" -> cfg.min_points_sphere
      [] feature_type = "cone" -> cfg.min_points_cone
      [] feature_type = "torus" -> TorusMinPoints

\* the third column of detection_order
enabled(cfg, feature_type) ==
    CASE feature_type = "plane" -> cfg.detect_planes
      [] feature_type = "cylinder" -> cfg.detect_cylinders
      [] feature_type = "sphere" -> cfg.detect_spheres
      [] feature_type = "cone" -> cfg.detect_cones
      [] feature_type = "torus" -> cfg.detect_tori

\* the test of the while loop of recognize
WhileCondition(cfg, remaining) == Cardinality(remaining) > cfg.min_points_plane

(***************************************************************************)
(* _detect_plane: one iteration of the RANSAC loop (lines 150-185)         *)
(***************************************************************************)
\* np.random.choice(n_points, k, replace=False): ordered, pairwise distinct
Samples(n_points, k) ==
    {s \in [1..k -> 1..n_points] : \A a, b \in 1..k : a # b => s[a] # s[b]}

\* normal = np.cross(v1, v2) of the sampled centroids; with centroids scaled by
\* 3 this is 9 times the code's vector, the same direction
SampleNormal(points, sample) ==
    Cross(VSub(points[sample[2]], points[sample[1]]),
          VSub(points[sample[3]], points[sample[1]]))

\* distances < threshold, with distances = |dot(points - point_on_plane, n)| for
\* the unit normal n = normal / |normal|: squared to stay in the integers
\* (points are 3 * centroid, threshold = th[1] / th[2])
PlaneInlierMask(points, point_on_plane, normal, th) ==
    {i \in DOMAIN points :
        Sq(Dot(VSub(points[i], point_on_plane), normal) * th[2])
            < 9 * Sq(th[1]) * Dot(normal, normal)}

\* np.mean(np.abs(np.dot(inlier_normals, n))) compared with threshold c[1]/c[2]:
\* "above", "equal" or "below"
MeanDotCompare(normals, inliers, normal, c) ==
    LET total == SumOver(inliers, [i \in inliers |-> Abs(Dot(normals[i], normal))])
        lhs == Sq(total * c[2])
        rhs == Sq(c[1] * Cardinality(inliers)) * Dot(normal, normal)
    IN  IF lhs > rhs THEN "above" ELSE IF lhs = rhs THEN "equal" ELSE "below"

NoBest == [inliers |-> {}, consistency |-> "none"]

\* the body of the for loop of _detect_plane after the sample is drawn: the
\* value of (best_inliers, best_plane) after the iteration
PlaneIteration(cfg, points, normals, best, sample) ==
    LET normal == SampleNormal(points, sample)
        inlier_mask == PlaneInlierMask(points, points[sample[1]], normal,
                                       cfg.ransac_threshold)
        n_inliers == Cardinality(inlier_mask)
        cmp == MeanDotCompare(normals, inlier_mask, normal,
                              cfg.normal_consistency_threshold)
    IN  IF normal = <<0, 0, 0>> THEN best                     \* line 162
        ELSE IF n_inliers > 0 /\ cmp # "above" THEN best      \* lines 174-180
        ELSE IF n_inliers > Cardinality(best.inliers)         \* line 182
             THEN [inliers |-> inlier_mask, consistency |-> cmp]
             ELSE best

(***************************************************************************)
(* _detect_cylinder, _detect_sphere, _detect_cone, _detect_torus: what one *)
(* iteration computes from its sample.  The fits are real-valued; the      *)
(* model draws their result: the sample is rejected (degenerate, radius or *)
(* angle out of range, the solve raises) or it gives an inlier mask.       *)
(***************************************************************************)
\* the inlier masks drawn: runs of consecutive positions of the points array
Runs(n_points) == {a..b : a \in 1..(n_points + 1), b \in 0..n_points}

Rejected == [valid |-> FALSE, inliers |-> {}, cmp |-> "none"]

\* for the sphere, cmp is how np.mean(normal_dots) compares with
\* normal_consistency_threshold
Hypotheses(feature_type, n_points) ==
    {Rejected} \cup
    [valid : {TRUE}, inliers : Runs(n_points),
     cmp : IF feature_type = "sphere" THEN {"above", "equal", "below"} ELSE {"none"}]

\* the smallest n_points for which the loop draws a sample (lines 266, 402, 514;
\* the torus returns None below 50 points, line 632)
SampleSize(feature_type) ==
    CASE feature_type = "plane" -> 3
      [] feature_type = "cylinder" -> 2
      [] feature_type = "sphere" -> 4
      [] feature_type = "cone" -> 3
      [] feature_type = "torus" -> TorusMinPoints

\* _detect_cylinder lines 306-314, _detect_cone lines 533-540,
\* _detect_torus lines 653-660
PlainIteration(best, h) ==
    IF ~h.valid THEN best
    ELSE IF Cardinality(h.inliers) > Cardinality(best.inliers)
         THEN [inliers |-> h.inliers, consistency |-> h.cmp]
         ELSE best

\* _detect_sphere lines 410-436
SphereIteration(cfg, best, h) ==
    LET n_inliers == Cardinality(h.inliers)
    IN  IF ~h.valid THEN best
        ELSE IF n_inliers > cfg.min_points_sphere /\ h.cmp = "below" THEN best
        ELSE IF n_inliers > Cardinality(best.inliers)
             THEN [inliers |-> h.inliers, consistency |-> h.cmp]
             ELSE best

\* range(self.config.ransac_iterations), // 2 for the torus (line 640)
Iterations(cfg, feature_type) ==
    IF feature_type = "torus" THEN cfg.ransac_iterations \div 2
    ELSE cfg.ransac_iterations

\* (mutant) every detector tests its best inlier set against min_points_plane
DetectorMinimum_PlaneForAll(cfg, feature_type) == cfg.min_points_plane

\* the minimum each detector requires of its best inlier set
\* (lines 188, 316, 438, 542, 662)
DetectorMinimum(cfg, feature_type) ==
    CASE feature_type = "plane" -> cfg.min_points_plane
      [] feature_type = "cylinder" -> cfg.min_points_cylinder
      [] feature_type = "sphere" -> cfg.min_points_sphere
      [] feature_type = "cone" -> cfg.min_points_cone
      [] feature_type = "torus" -> TorusMinPoints

\* the detectors with a refinement step: _refine_plane_fit,
\* _refine_cylinder_fit, _refine_sphere_fit
HasRefinement(feature_type) == feature_type \in {"plane", "cylinder", "sphere"}

\* the refinements whose solve is wrapped in try/except (lines 380-389, 496-501);
\* _refine_plane_fit calls np.linalg.svd unguarded (line 223)
RefinementGuarded(feature_type) == feature_type \in {"cylinder", "sphere"}

(***************************************************************************)
(* State of one recognize call                                             *)
(***************************************************************************)
VARIABLES
    mesh,             \* name of the mesh handed to recognize (self._mesh)
    config,           \* self.config
    features,         \* the list recognize returns, in order of appending
    remaining_faces,  \* the set remaining_faces
    type_idx,         \* position of the for loop in detection_order (6: past it)
    pc,               \* "while": at the test of the while loop; "ransac": in
                      \* the for loop of a detector; "select": after it;
                      \* "done": recognize returned; "raised": it raised;
                      \* "idle": no recognize call is modelled
    it,               \* iterations of the detector's loop done so far
    best,             \* best_inliers (positions in points) of the detector
    calls,            \* number of detect_fn calls made so far
    \* ---- state of one STLParser.parse call ----
    file,             \* what is at file_path
    merge_vertices,   \* self.merge_vertices
    ppc,              \* "start", "ascii", "binary" (in a decoder's loop),
                      \* "parsed" (a decoder returned), "returned", "raised",
                      \* "rewelded" (the returned mesh was welded once more),
                      \* "idle": no parse call is modelled
    dec,              \* the locals of the running decoder
    out,              \* the mesh parse holds; the error when it raised
    seen,             \* history of _parse_ascii: whether the last line read was
                      \* an endfacet line, and the well-formed vertex lines and
                      \* the last well-formed facet normal line read since the
                      \* last endfacet line (or the start of the file)
    \* ---- one triangle list, parsed from its ASCII and its binary file ----
    geometry,         \* the triangle list both files encode
    epc,              \* "start", "ascii", "binary" (in a decoder's loop),
                      \* "parsed", "returned", "raised", of the parse call
                      \* that is running; "done": both calls are over;
                      \* "idle": no such pair of calls is modelled
    encoding,         \* "ascii" or "binary": the file the running call reads
    edec,             \* the locals of the running decoder
    ascii_mesh,       \* what parse gave for the ASCII file
    binary_mesh,      \* what parse gave for the binary file
    \* ---- state of one SurfaceFitter.fit_with_refinement call ----
    fit_points,       \* the points argument, by what fit computes from it
    fconfig,          \* self.config of the SurfaceFitter
    target_error,     \* the target_error argument
    max_refinements,  \* the max_refinements argument
    fitted,           \* the local fitted
    fits,             \* number of fit calls made so far
    refinements,      \* iterations of the for loop started so far
    fpc,              \* "start"; "loop": at the top of the for loop;
                      \* "returned"; "raised"; "idle": no call is modelled
    \* ---- recognize invocations running on one FeatureRecognizer ----
    self_mesh,        \* self._mesh of the shared FeatureRecognizer
    invocations,      \* per invocation: its mesh argument, its position,
                      \* and the meshes its points and face count came from
    \* ---- the backend: one InMemoryKclStorage and the requests on it ----
    storage,          \* _versions, _order and _counter of the storage
    requests,         \* per request: its kind, its payload, its position in
                      \* the handler and its response
    save_log,         \* history: the save_code calls made, in call order, as
                      \* pairs of the id returned and the code passed
    reply,            \* what the last get_code or list_versions call returned
    \* ---- one call of a function that keeps no state ----
    arg,              \* the function called and its arguments
    ret,              \* what it returned, or the exception it raised
    upc               \* "call", "returned", "raised"; "idle": none is modelled

rvars == <<mesh, config, features, remaining_faces, type_idx, pc, it, best, calls>>
pvars == <<file, merge_vertices, ppc, dec, out, seen>>
evars == <<geometry, epc, encoding, edec, ascii_mesh, binary_mesh>>
fvars == <<fit_points, fconfig, target_error, max_refinements, fitted, fits, refinements, fpc>>
cvars == <<self_mesh, invocations>>
kvars == <<storage, requests, save_log, reply>>
uvars == <<arg, ret, upc>>
vars == <<mesh, config, features, remaining_faces, type_idx, pc, it, best, calls,
          file, merge_vertices, ppc, dec, out, seen,
          geometry, epc, encoding, edec, ascii_mesh, binary_mesh,
          fit_points, fconfig, target_error, max_refinements, fitted, fits, refinements, fpc,
          self_mesh, invocations, storage, requests, save_log, reply, arg, ret, upc>>

\* what an action of one of the calls modelled leaves alone
NotRecognizer == <<pvars, evars, fvars, cvars, kvars, uvars>>
NotParser == <<rvars, evars, fvars, cvars, kvars, uvars>>
NotEquivalence == <<rvars, file, ppc, dec, out, seen, fvars, cvars, kvars, uvars>>
NotFitter == <<rvars, pvars, evars, cvars, kvars, uvars>>
NotConcurrent == <<rvars, pvars, evars, fvars, kvars, uvars>>
NotService == <<rvars, pvars, evars, fvars, cvars, uvars>>
NotCall == <<rvars, pvars, evars, fvars, cvars, kvars>>

feature_type == detection_order[type_idx]
n_points == Cardinality(remaining_faces)

\* points, point_normals = self._get_face_points(face_indices)
points == [i \in 1..n_points |->
              Centroid3(MeshOf(mesh), face_indices_at(remaining_faces, i))]
point_normals == [i \in 1..n_points |->
                     MeshOf(mesh).normals[face_indices_at(remaining_faces, i) + 1]]

(***************************************************************************)
(* The configurations and meshes recognize is run on.                      *)
(***************************************************************************)
OnlyPlanes(cfg) ==
    [cfg EXCEPT !.detect_cylinders = FALSE, !.detect_spheres = FALSE,
                !.detect_cones = FALSE, !.detect_tori = FALSE]

OnlyTori(cfg) ==
    [cfg EXCEPT !.detect_planes = FALSE, !.detect_cylinders = FALSE,
                !.detect_spheres = FALSE, !.detect_cones = FALSE]

\* the defaults with every choice of the enable flags and every choice of the
\* four min_points_* in 1..MaxMin
ScaledConfigs ==
    {[FeatureRecognitionConfig EXCEPT
        !.detect_planes = f[1], !.detect_cylinders = f[2],
        !.detect_spheres = f[3], !.detect_cones = f[4], !.detect_tori = f[5],
        !.min_points_plane = m[1], !.min_points_cylinder = m[2],
        !.min_points_sphere = m[3], !.min_points_cone = m[4]] :
     f \in [1..5 -> BOOLEAN], m \in [1..4 -> 1..MaxMin]}

\* the enable flags of cfg are those of f, a function on 1..5
WithFlags(cfg, f) ==
    [cfg EXCEPT !.detect_planes = f[1], !.detect_cylinders = f[2],
                !.detect_spheres = f[3], !.detect_cones = f[4], !.detect_tori = f[5]]

\* the cube and the step are run with planes only (the defaults, and the
\* scaled-down minimum); the ring with tori only; the fold with planes, with
\* and without cylinders; the plate with every scaled configuration
ConfigsFor(name) ==
    CASE name \in {"cube", "step"} ->
            {OnlyPlanes(FeatureRecognitionConfig)} \cup
            {OnlyPlanes([FeatureRecognitionConfig EXCEPT !.min_points_plane = m]) :
                m \in 1..MaxMin}
      [] name = "ring" -> {OnlyTori(FeatureRecognitionConfig)}
      [] name = "fold" ->
            {WithFlags([FeatureRecognitionConfig EXCEPT
                          !.min_points_plane = m[1], !.min_points_cylinder = m[2]],
                       <<TRUE, c, FALSE, FALSE, FALSE>>) :
                m \in [1..2 -> 1..MaxMin], c \in BOOLEAN}
      [] name = "plate" -> ScaledConfigs

\* an STLMesh as the parser holds it: vertices and normals are sequences of
\* coordinate triples, faces a sequence of triples of 0-based vertex indices
STLMesh(vertices, faces, normals, name) ==
    [vertices |-> vertices, faces |-> faces, normals |-> normals,
     name |-> name, error |-> "none"]

NoMesh == STLMesh(<<>>, <<>>, <<>>, "")

\* the locals of _parse_ascii (lines 131-134) and of _parse_binary: triangles
\* holds one list of three vertices per decoded triangle
Decoder(name) ==
    [triangles |-> <<>>, normals |-> <<>>, current_normal |-> <<>>,
     current_vertices |-> <<>>, name |-> name]

NothingSeen == [line |-> "none", vertices |-> <<>>, normals |-> <<>>]

NoFile ==
    [exists |-> FALSE, header |-> "plain", head_token |-> FALSE, body |-> "plain",
     decodable |-> TRUE, content |-> "no_facets", size |-> 0, count |-> 0]

\* no parse call is in progress
ParserIdle ==
    /\ file = NoFile
    /\ merge_vertices = TRUE
    /\ ppc = "idle"
    /\ dec = Decoder("")
    /\ out = NoMesh
    /\ seen = NothingSeen

\* the variables of the two parse calls of one triangle list while another
\* call is modelled
EquivalenceIdle ==
    /\ geometry = <<>>
    /\ epc = "idle"
    /\ encoding = "ascii"
    /\ edec = Decoder("")
    /\ ascii_mesh = NoMesh
    /\ binary_mesh = NoMesh

\* a FittedSurface by what the calls modelled read of it; call is the number
\* of the fit call that returned it
NoFit == [call |-> 0, max_error |-> 0, n_u |-> 0, n_v |-> 0, knots_u |-> <<>>, knots_v |-> <<>>]

\* the fitter's variables while another call is modelled
FitterIdle ==
    /\ fit_points = [u_params |-> <<>>, v_params |-> <<>>, sqrt_ratio |-> <<1, 1>>]
    /\ fconfig = [nurbs_degree_u |-> 3, nurbs_degree_v |-> 3, control_points_density |-> <<1, 10>>]
    /\ target_error = 0
    /\ max_refinements = 0
    /\ fitted = NoFit
    /\ fits = 0
    /\ refinements = 0
    /\ fpc = "idle"

\* no recognize invocation runs on a shared recognizer
ConcurrentIdle ==
    /\ self_mesh = "none"
    /\ invocations = <<>>

\* an InMemoryKclStorage as constructed (in_memory.py lines 21-24)
EmptyStorage == [versions |-> {}, order |-> <<>>, counter |-> 0]

\* no request is modelled
ServiceIdle ==
    /\ storage = EmptyStorage
    /\ requests = <<>>
    /\ save_log = <<>>
    /\ reply = <<>>

\* no call of a stateless function is modelled
CallIdle ==
    /\ arg = <<>>
    /\ ret = <<>>
    /\ upc = "idle"

RestIdle == ConcurrentIdle /\ ServiceIdle /\ CallIdle

\* recognize, lines 73-78
Init ==
    /\ mesh \in MeshNames
    /\ config \in ConfigsFor(mesh)
    /\ features = <<>>
    /\ remaining_faces = 0..(num_faces(MeshOf(mesh)) - 1)
    /\ type_idx = 1
    /\ pc = "while"
    /\ it = 0
    /\ best = NoBest
    /\ calls = 0
    /\ ParserIdle
    /\ EquivalenceIdle
    /\ FitterIdle
    /\ RestIdle

(***************************************************************************)
(* recognize: the for loop over detection_order and its while loop         *)
(***************************************************************************)
NextType ==
    /\ type_idx' = type_idx + 1
    /\ pc' = "while"
    /\ it' = 0
    /\ best' = NoBest
    /\ UNCHANGED NotRecognizer /\ UNCHANGED <<mesh, config, features, remaining_faces, calls>>

\* lines 90-91: if not enabled: continue
SkipDisabled ==
    /\ pc = "while" /\ type_idx <= 5
    /\ ~enabled(config, feature_type)
    /\ NextType

\* line 93: the while test fails
ExitWhile ==
    /\ pc = "while" /\ type_idx <= 5
    /\ enabled(config, feature_type)
    /\ ~WhileCondition(config, remaining_faces)
    /\ NextType

\* lines 98-99: if len(points) < self._min_points_for_type(feature_type): break
BreakBelowMinimum ==
    /\ pc = "while" /\ type_idx <= 5
    /\ enabled(config, feature_type)
    /\ WhileCondition(config, remaining_faces)
    /\ n_points < min_points_for_type(config, feature_type)
    /\ NextType

\* line 102: feature = detect_fn(points, point_normals, face_indices)
CallDetect ==
    /\ pc = "while" /\ type_idx <= 5
    /\ enabled(config, feature_type)
    /\ WhileCondition(config, remaining_faces)
    /\ ~(n_points < min_points_for_type(config, feature_type))
    /\ pc' = "ransac"
    /\ it' = 0
    /\ best' = NoBest
    /\ calls' = calls + 1
    /\ UNCHANGED NotRecognizer /\ UNCHANGED <<mesh, config, features, remaining_faces, type_idx>>

\* line 112: return features
Return ==
    /\ pc = "while" /\ type_idx = 6
    /\ pc' = "done"
    /\ UNCHANGED NotRecognizer /\ UNCHANGED <<mesh, config, features, remaining_faces, type_idx, it, best, calls>>

(***************************************************************************)
(* The detectors' loops                                                    *)
(***************************************************************************)
InLoop(t) ==
    /\ pc = "ransac" /\ feature_type = t
    /\ it < Iterations(config, t)

Iterate(new_best) ==
    /\ it' = it + 1
    /\ best' = new_best
    /\ UNCHANGED NotRecognizer /\ UNCHANGED <<mesh, config, features, remaining_faces, type_idx, pc, calls>>

\* lines 152-153, 266-267, 402-403, 514-515: too few points to sample: break;
\* lines 632-633: the torus detector returns None below 50 points
RansacBreak ==
    /\ InLoop(feature_type)
    /\ n_points < SampleSize(feature_type)
    /\ pc' = "select"
    /\ UNCHANGED NotRecognizer /\ UNCHANGED <<mesh, config, features, remaining_faces, type_idx, it, best, calls>>

RansacPlane ==
    /\ InLoop("plane")
    /\ n_points >= SampleSize("plane")
    /\ \E sample \in Samples(n_points, 3) :
          Iterate(PlaneIteration(config, points, point_normals, best, sample))

RansacCylinder ==
    /\ InLoop("cylinder")
    /\ n_points >= SampleSize("cylinder")
    /\ \E h \in Hypotheses("cylinder", n_points) : Iterate(PlainIteration(best, h))

RansacSphere ==
    /\ InLoop("sphere")
    /\ n_points >= SampleSize("sphere")
    /\ \E h \in Hypotheses("sphere", n_points) : Iterate(SphereIteration(config, best, h))

RansacCone ==
    /\ InLoop("cone")
    /\ n_points >= SampleSize("cone")
    /\ \E h \in Hypotheses("cone", n_points) : Iterate(PlainIteration(best, h))

RansacTorus ==
    /\ InLoop("torus")
    /\ n_points >= SampleSize("torus")
    /\ \E h \in Hypotheses("torus", n_points) : Iterate(PlainIteration(best, h))

\* the for loop of the detector is exhausted
RansacEnd ==
    /\ pc = "ransac"
    /\ ~(it < Iterations(config, feature_type))
    /\ pc' = "select"
    /\ UNCHANGED NotRecognizer /\ UNCHANGED <<mesh, config, features, remaining_faces, type_idx, it, best, calls>>

(***************************************************************************)
(* After the loop: minimum test, refinement, the feature, and the update   *)
(* of recognize (lines 104-110)                                            *)
(***************************************************************************)
\* (mutant) the two denominators exchanged: confidence over the mesh's faces,
\* coverage_ratio over the candidate points
RecognizedFeature_Swapped(t, m, remaining, b, params) ==
    [feature_type |-> t,
     point_indices |-> b.inliers,
     face_indices |-> {face_indices_at(remaining, i) : i \in b.inliers},
     confidence |-> <<Cardinality(b.inliers), num_faces(m)>>,
     coverage_ratio |-> <<Cardinality(b.inliers), Cardinality(remaining)>>,
     consistency |-> b.consistency,
     params |-> params]

\* the RecognizedFeature a detector builds; confidence and coverage_ratio are
\* kept as <<numerator, denominator>>; params tells whether the primitive
\* holds the refined parameters or those of the best RANSAC hypothesis
RecognizedFeature(t, m, remaining, b, params) ==
    [feature_type |-> t,
     point_indices |-> b.inliers,
     face_indices |-> FacesOfPositions(remaining, b.inliers),
     confidence |-> <<Cardinality(b.inliers), Cardinality(remaining)>>,
     coverage_ratio |-> <<Cardinality(b.inliers), num_faces(m)>>,
     consistency |-> b.consistency,
     params |-> params]

\* (mutant) recognize tries the same type again after a failed detection
ReturnNone_Retry ==
    /\ pc = "select"
    /\ Cardinality(best.inliers) < DetectorMinimum(config, feature_type)
    /\ pc' = "while"
    /\ it' = 0
    /\ best' = NoBest
    /\ UNCHANGED NotRecognizer /\ UNCHANGED <<mesh, config, features, remaining_faces, type_idx, calls>>

\* lines 188-189 (316, 438, 542, 662): return None; recognize: else: break
ReturnNone ==
    /\ pc = "select"
    /\ Cardinality(best.inliers) < DetectorMinimum(config, feature_type)
    /\ NextType

\* the detector returns a feature; recognize removes its faces and appends it
ReturnFeature ==
    /\ pc = "select"
    /\ ~(Cardinality(best.inliers) < DetectorMinimum(config, feature_type))
    /\ \E solve \in {"ok", "raises"} :
          /\ solve = "raises" => RefinementGuarded(feature_type)
          /\ LET params == IF HasRefinement(feature_type) /\ solve = "ok"
                           THEN "refined" ELSE "ransac"
                 feature == RecognizedFeature(feature_type, MeshOf(mesh),
                                              remaining_faces, best, params)
             IN  /\ remaining_faces' = remaining_faces \ feature.face_indices
                 /\ features' = Append(features, feature)
    /\ pc' = "while"
    /\ it' = 0
    /\ best' = NoBest
    /\ UNCHANGED NotRecognizer /\ UNCHANGED <<mesh, config, type_idx, calls>>

\* np.linalg.svd raises in _refine_plane_fit (line 223): nothing catches it in
\* _detect_plane or in recognize
RefineRaises ==
    /\ pc = "select"
    /\ ~(Cardinality(best.inliers) < DetectorMinimum(config, feature_type))
    /\ HasRefinement(feature_type) /\ ~RefinementGuarded(feature_type)
    /\ pc' = "raised"
    /\ UNCHANGED NotRecognizer /\ UNCHANGED <<mesh, config, features, remaining_faces, type_idx, it, best, calls>>

Next ==
    \/ SkipDisabled
    \/ ExitWhile
    \/ BreakBelowMinimum
    \/ CallDetect
    \/ Return
    \/ RansacBreak
    \/ RansacPlane
    \/ RansacCylinder
    \/ RansacSphere
    \/ RansacCone
    \/ RansacTorus
    \/ RansacEnd
    \/ ReturnNone
    \/ ReturnFeature
    \/ RefineRaises

Spec == Init /\ [][Next]_vars

(***************************************************************************)
(* Claims about recognize                                                  *)
(***************************************************************************)
AllFaces == 0..(num_faces(MeshOf(mesh)) - 1)

\* the faces not consumed by the features before the i-th: what the detector
\* that found the i-th feature had been handed
HandedTo(i) == AllFaces \ UNION {features[j].face_indices : j \in 1..(i - 1)}

TypeRank(t) ==
    CASE t = "plane" -> 1 [] t = "cylinder" -> 2 [] t = "sphere" -> 3
      [] t = "cone" -> 4 [] t = "torus" -> 5

ConfigMinimum(t) ==
    CASE t = "plane" -> config.min_points_plane
      [] t = "cylinder" -> config.min_points_cylinder
      [] t = "sphere" -> config.min_points_sphere
      [] t = "cone" -> config.min_points_cone
      [] t = "torus" -> 50

Terminated == pc \in {"done", "raised"}

\* C1: after every step of recognize the face_indices of the features found so
\* far are pairwise disjoint subsets of 0..num_faces-1, and remaining_faces is
\* exactly the set of all faces minus their union.
C1_FacesPartitioned ==
    /\ \A i, j \in 1..Len(features) :
          i # j => features[i].face_indices \cap features[j].face_indices = {}
    /\ \A i \in 1..Len(features) : features[i].face_indices \subseteq AllFaces
    /\ remaining_faces =
          AllFaces \ UNION {features[i].face_indices : i \in 1..Len(features)}

\* two features have been carved out and faces are still left
C1_Witness ==
    /\ Len(features) >= 2
    /\ remaining_faces # {}
    /\ features[2].face_indices # features[2].point_indices

\* C2: for an enabled type, recognize attempts a detection whenever the number
\* of remaining faces is at least that type's own minimum (the count equal to
\* the minimum included, whatever the other types' minimums are).
C2_AttemptedAtOwnMinimum ==
    [][(/\ pc = "while" /\ type_idx <= 5
        /\ enabled(config, detection_order[type_idx])
        /\ n_points >= ConfigMinimum(detection_order[type_idx]))
       => pc' = "ransac"]_vars

\* C3: on the unit cube with only planes enabled recognize returns exactly 6
\* planes of 2 faces each (the two triangles of one side), consuming all 12.
C3_CubeSixPlanes ==
    (pc = "done" /\ mesh = "cube" /\ config = OnlyPlanes(FeatureRecognitionConfig))
    => /\ Len(features) = 6
       /\ remaining_faces = {}
       /\ \A i \in 1..Len(features) :
             /\ features[i].feature_type = "plane"
             /\ \E side \in 0..5 : features[i].face_indices = {2 * side, 2 * side + 1}

\* C4: the types are tried in the order plane, cylinder, sphere, cone, torus:
\* a success returns to the while test of the same type, a failure moves to
\* the next type, no earlier type is tried again; so the features are ordered
\* by type, and a face set on which the plane detector returned a feature is
\* not handed to a later detector (nor is any of that feature's faces).
C4_OrderState ==
    /\ \A i, j \in 1..Len(features) :
          i < j => TypeRank(features[i].feature_type) <= TypeRank(features[j].feature_type)
    /\ (pc \in {"ransac", "select"} /\ detection_order[type_idx] # "plane")
          => \A i \in 1..Len(features) :
                features[i].feature_type = "plane"
                   => /\ remaining_faces # HandedTo(i)
                      /\ remaining_faces \cap features[i].face_indices = {}
    /\ pc \in {"ransac", "select"}
          => \A i \in 1..Len(features) :
                TypeRank(features[i].feature_type) <= type_idx

C4_OrderStep ==
    /\ type_idx' >= type_idx
    /\ features' # features
          => /\ type_idx' = type_idx /\ pc' = "while"
             /\ features' = Append(features, features'[Len(features')])
             /\ features'[Len(features')].feature_type = detection_order[type_idx]
    /\ (pc = "select" /\ features' = features /\ pc' # "raised")
          => type_idx' = type_idx + 1 /\ pc' = "while"

C4_FixedOrder == [](C4_OrderState) /\ [][C4_OrderStep]_vars

\* a plane and then a cylinder have been found: the cylinder detector ran on
\* what the plane detector left
C4_Witness ==
    /\ Len(features) >= 2
    /\ features[1].feature_type = "plane"
    /\ features[2].feature_type = "cylinder"

\* C5: recognize terminates: every successful detection removes at least one
\* face, every type is left after its first failed detection, and the number
\* of detector calls is at most num_faces plus the number of enabled types.
\* Termination is stated with a variant: a natural number that every step of
\* recognize decreases.
EnabledTypes == {t \in 1..5 : enabled(config, detection_order[t])}

\* rounds left (faces that can still be consumed plus types that can still be
\* left), and the steps left within the round
Variant ==
    LET n == config.ransac_iterations
        rounds == Cardinality(remaining_faces) + (6 - type_idx)
        within == CASE pc = "while" -> n + 3
                    [] pc = "ransac" -> n + 2 - it
                    [] pc = "select" -> 1
                    [] OTHER -> 0
    IN  rounds * (n + 4) + within

C5_Progress ==
    /\ features' # features => remaining_faces' \subseteq remaining_faces
                               /\ remaining_faces' # remaining_faces
    /\ (pc = "select" /\ features' = features /\ pc' # "raised")
          => type_idx' = type_idx + 1
    /\ Variant' < Variant

C5_Terminates ==
    /\ [](Variant >= 0)
    /\ [](calls <= num_faces(MeshOf(mesh)) + Cardinality(EnabledTypes))
    /\ [][C5_Progress]_vars

\* recognize has returned after at least three detector calls, one of them failed
C5_Witness == pc = "done" /\ calls >= 3 /\ calls > Len(features) /\ Len(features) >= 1

\* C6: every hypothesis selected as the best of a plane or sphere RANSAC run
\* has a mean absolute cosine above normal_consistency_threshold.
C6_BestIsConsistent ==
    (/\ pc \in {"ransac", "select"}
     /\ detection_order[type_idx] \in {"plane", "sphere"}
     /\ best.inliers # {})
    => best.consistency = "above"

\* C7: when a refinement solve fails the detector still returns a feature and
\* recognize does not raise, for the plane refit as for the others.
C7_NeverRaises == pc # "raised"

\* C8: every returned feature has as many face_indices as point_indices and at
\* least its type's minimum of them (50 for the torus); a run whose best inlier
\* count is below the minimum returns no feature and removes no face.
C8_MinimumState ==
    \A i \in 1..Len(features) :
       /\ Cardinality(features[i].face_indices) = Cardinality(features[i].point_indices)
       /\ Cardinality(features[i].face_indices) >= ConfigMinimum(features[i].feature_type)

C8_MinimumStep ==
    (pc = "select"
       /\ Cardinality(best.inliers) < ConfigMinimum(detection_order[type_idx]))
    => features' = features /\ remaining_faces' = remaining_faces

C8_MinimumInliers == [](C8_MinimumState) /\ [][C8_MinimumStep]_vars

\* a cylinder was returned although the best run of inliers is no larger than
\* the cylinder minimum, which is above the plane minimum
C8_Witness ==
    /\ Len(features) >= 1
    /\ features[Len(features)].feature_type = "cylinder"
    /\ Cardinality(features[Len(features)].face_indices) = config.min_points_cylinder
    /\ config.min_points_cylinder > config.min_points_plane

\* C9: confidence = inliers / candidate points (the faces remaining when the
\* feature was detected), coverage_ratio = inliers / num_faces; so
\* 0 < coverage_ratio <= confidence <= 1 and the coverage ratios sum to at most 1.
C9_Ratios ==
    /\ \A i \in 1..Len(features) :
          LET f == features[i]
              inl == Cardinality(f.face_indices)
          IN  /\ f.confidence = <<inl, Cardinality(HandedTo(i))>>
              /\ f.coverage_ratio = <<inl, num_faces(MeshOf(mesh))>>
              /\ f.coverage_ratio[1] > 0 /\ f.coverage_ratio[2] > 0
              /\ f.confidence[2] > 0
              /\ f.coverage_ratio[1] * f.confidence[2]
                    <= f.confidence[1] * f.coverage_ratio[2]
              /\ f.confidence[1] <= f.confidence[2]
    /\ SumOver(1..Len(features),
               [i \in 1..Len(features) |-> features[i].coverage_ratio[1]])
          <= num_faces(MeshOf(mesh))

\* a second feature, found among fewer candidates than the mesh has faces
C9_Witness ==
    /\ Len(features) >= 2
    /\ features[2].confidence[2] < features[2].coverage_ratio[2]
    /\ features[2].confidence[1] < features[2].confidence[2]

(***************************************************************************)
(* STLParser.parse (parsers/stl_parser.py)                                 *)
(*                                                                         *)
(* A file is described by what parse looks at: whether it exists; whether  *)
(* its first 80 bytes decode as ASCII and, stripped and lowered, start     *)
(* with "solid" (header) and whether they contain "facet" or "vertex"      *)
(* (head_token); whether the bytes from there to the 1000th decode and     *)
(* contain one of those words (body); whether the whole file decodes       *)
(* (decodable); what its lines hold when read as text (content: facets, a  *)
(* bad number before the first well-formed facet or vertex line, or no     *)
(* facet or vertex line at all); its size in bytes and the little-endian   *)
(* unsigned integer at bytes 80..83 (count).  The lines of an ASCII file   *)
(* and the floats of a binary file are drawn when the decoder reads them.  *)
(* Coordinates are whole numbers of half the merge tolerance.              *)
(***************************************************************************)
MaxTriangles == 2

\* merge_tolerance (line 74) in the unit of the coordinates
MergeTolerance == 2

\* lines 178, 189, 199, 208: the sizes of the reads of _parse_binary
HeaderBytes == 80
CountBytes == 4
FloatsBytes == 12
AttributeBytes == 2

\* line 114: the bytes _is_ascii reads to confirm
LookaheadBytes == 1000

\* file_path.stem, the name of a "solid" line, the text of a binary header
Stem == "part"
SolidName == "widget"
HeaderText == "header"

\* the vertices tried: two that differ by half the tolerance, and one that is
\* a whole tolerance away from the first along another axis
Vertices == {<<0, 0, 0>>, <<1, 0, 0>>, <<0, 2, 0>>}
Normals == {<<0, 0, 1>>}

\* bytes of the file before triangle i (0-based), and up to the end of its
\* twelve floats
TriangleStart(i) == HeaderBytes + CountBytes + i * (4 * FloatsBytes + AttributeBytes)
TriangleFloatsEnd(i) == TriangleStart(i) + 4 * FloatsBytes

\* the sizes tried for a binary file that announces count triangles: too short
\* for header and count; cut inside the floats of its last triangle, before
\* its attribute bytes, and inside them; complete; and with a byte to spare
Sizes(count) ==
    {HeaderBytes, HeaderBytes + CountBytes - 1, TriangleStart(count), TriangleStart(count) + 1} \cup
    (IF count = 0 THEN {}
     ELSE {TriangleFloatsEnd(count - 1) - 1, TriangleFloatsEnd(count - 1),
           TriangleFloatsEnd(count - 1) + 1})

\* an existing file
File(header, head_token, body, decodable, content, size, count) ==
    [exists |-> TRUE, header |-> header, head_token |-> head_token, body |-> body,
     decodable |-> decodable, content |-> content, size |-> size, count |-> count]

\* text files: an ASCII STL as exporters write it ("solid" first, facets
\* within the first 1000 bytes), well-formed or with a bad number before its
\* first well-formed facet or vertex line, or with a byte past the first 1000
\* that does not decode; and ASCII STLs whose facets start beyond the first
\* 1000 bytes or whose first line is not "solid".  Read as binary, the four
\* characters after the header announce more triangles than the text has
\* bytes (here: as many as it has bytes).
TextFiles ==
    {File("solid", FALSE, "token", TRUE, c, TriangleFloatsEnd(0), TriangleFloatsEnd(0)) :
        c \in {"facets", "bad_number"}} \cup
    {File("solid", FALSE, "token", FALSE, "facets",
          TriangleStart(0) + LookaheadBytes, TriangleStart(0) + LookaheadBytes)} \cup
    {File(h, FALSE, "plain", TRUE, "facets", TriangleFloatsEnd(0), TriangleFloatsEnd(0)) :
        h \in {"solid", "plain"}}

\* binary files whose header starts with "solid": with "facet" or "vertex" in
\* the header or not, the bytes after the header all ASCII or not, one
\* triangle announced and held; with bytes to spare past the first 1000,
\* ASCII or not
SolidBinaryFiles ==
    {File("solid", t, b, b = "plain", "no_facets", TriangleStart(1), 1) :
        t \in BOOLEAN, b \in {"plain", "nonascii"}} \cup
    {File("solid", TRUE, "plain", d, "no_facets", TriangleStart(1) + LookaheadBytes, 1) :
        d \in BOOLEAN}

\* binary files of each count and size, the header without text (NUL bytes)
BinaryFiles ==
    {File("empty", FALSE, "nonascii", FALSE, "no_facets", sz[2], sz[1]) :
        sz \in UNION {{<<c, z>> : z \in Sizes(c)} : c \in 0..MaxTriangles}} \cup
    {File(h, FALSE, b, FALSE, "no_facets", TriangleStart(0), 0) :
        h \in {"plain", "nonascii"}, b \in {"token", "nonascii"}}

Files == {NoFile} \cup TextFiles \cup SolidBinaryFiles \cup BinaryFiles

\* lines 114-118: what decoding and searching the first 1000 bytes gives
lookahead(f) ==
    IF f.header = "nonascii" \/ f.body = "nonascii" THEN "nonascii"
    ELSE IF f.head_token \/ f.body = "token" THEN "keyword"
    ELSE "plain"

\* lines 104-124
is_ascii(f) ==
    IF f.header = "nonascii" THEN FALSE
    ELSE IF f.header = "solid"
         THEN IF lookahead(f) = "nonascii" THEN FALSE
              ELSE lookahead(f) = "keyword"
         ELSE FALSE

\* the lines of an ASCII file, by what lines 137-158 make of them: value is
\* the parsed normal or vertex; "malformed" carries a number float() rejects
Lines ==
    {[keyword |-> "facet", parts |-> "full", value |-> n] : n \in Normals} \cup
    {[keyword |-> "vertex", parts |-> "full", value |-> v] : v \in Vertices} \cup
    {[keyword |-> k, parts |-> p, value |-> <<>>] :
        k \in {"facet", "vertex"}, p \in {"short", "malformed"}} \cup
    {[keyword |-> "solid", parts |-> p, value |-> <<>>] : p \in {"full", "short"}} \cup
    {[keyword |-> k, parts |-> "full", value |-> <<>>] :
        k \in {"endfacet", "other", "blank"}}

\* what has been read after one more line that does not raise; of the facet
\* normal lines the last one is kept
SeenAfter(h, line) ==
    IF line.keyword = "endfacet"
    THEN [line |-> "endfacet", vertices |-> <<>>, normals |-> <<>>]
    ELSE IF line.keyword = "vertex" /\ line.parts = "full"
    THEN [h EXCEPT !.line = "other", !.vertices = Append(@, line.value)]
    ELSE IF line.keyword = "facet" /\ line.parts = "full"
    THEN [h EXCEPT !.line = "other", !.normals = <<line.value>>]
    ELSE [h EXCEPT !.line = "other"]

\* line 144 or line 147 raises ValueError
LineRaises(line) == line.parts = "malformed"

\* (mutant) an endfacet line that emits nothing leaves the in-progress normal
\* and vertices in place
parse_ascii_line_KeepOnDrop(d, line) ==
    IF line.keyword = "facet" /\ line.parts = "full"
    THEN [d EXCEPT !.current_normal = <<line.value>>]
    ELSE IF line.keyword = "vertex" /\ line.parts = "full"
    THEN [d EXCEPT !.current_vertices = Append(@, line.value)]
    ELSE IF line.keyword = "endfacet"
            /\ Len(d.current_vertices) = 3 /\ d.current_normal # <<>>
    THEN [d EXCEPT !.triangles = Append(@, d.current_vertices),
                   !.normals = Append(@, d.current_normal[1]),
                   !.current_vertices = <<>>,
                   !.current_normal = <<>>]
    ELSE IF line.keyword = "solid" /\ line.parts = "full"
    THEN [d EXCEPT !.name = SolidName]
    ELSE d

\* lines 137-158: the body of the for loop, for a line that does not raise
parse_ascii_line(d, line) ==
    IF line.keyword = "blank" THEN d
    ELSE IF line.keyword = "facet" /\ line.parts = "full"
    THEN [d EXCEPT !.current_normal = <<line.value>>]
    ELSE IF line.keyword = "vertex" /\ line.parts = "full"
    THEN [d EXCEPT !.current_vertices = Append(@, line.value)]
    ELSE IF line.keyword = "endfacet"
    THEN IF Len(d.current_vertices) = 3 /\ d.current_normal # <<>>
         THEN [d EXCEPT !.triangles = Append(@, d.current_vertices),
                        !.normals = Append(@, d.current_normal[1]),
                        !.current_vertices = <<>>,
                        !.current_normal = <<>>]
         ELSE [d EXCEPT !.current_vertices = <<>>, !.current_normal = <<>>]
    ELSE IF line.keyword = "solid" /\ line.parts = "full"
    THEN [d EXCEPT !.name = SolidName]
    ELSE d

RECURSIVE Flatten(_)
\* line 165: triangles.reshape(-1, 3)
Flatten(triangles) ==
    IF triangles = <<>> THEN <<>>
    ELSE Head(triangles) \o Flatten(Tail(triangles))

\* lines 166, 194: np.arange(num_triangles * 3).reshape(-1, 3)
ArangeFaces(num_triangles) ==
    [k \in 1..num_triangles |-> <<3 * (k - 1), 3 * (k - 1) + 1, 3 * (k - 1) + 2>>]

\* lines 160-173, 210-215: the mesh a decoder returns
DecodedMesh(d) ==
    STLMesh(Flatten(d.triangles), ArangeFaces(Len(d.triangles)), d.normals, d.name)

\* lines 181-184: the name _parse_binary takes from the header, if it has text
BinaryName(f) == IF f.header = "empty" THEN Stem ELSE HeaderText

\* np.round of x / t for x >= 0: to the nearest integer, halves to the even one
RoundHalfEven(x, t) ==
    LET q == x \div t
        r == x % t
    IN  IF 2 * r < t THEN q
        ELSE IF 2 * r > t THEN q + 1
        ELSE IF q % 2 = 0 THEN q ELSE q + 1

\* line 221: one row of rounded
Quantize(v) == [k \in 1..3 |-> RoundHalfEven(v[k], MergeTolerance)]

\* the order in which np.unique(axis=0) sorts rows
LexLess(a, b) ==
    \/ a[1] < b[1]
    \/ a[1] = b[1] /\ a[2] < b[2]
    \/ a[1] = b[1] /\ a[2] = b[2] /\ a[3] < b[3]

\* lines 224-226: for the rows of rounded, 0-based position of each row among
\* the sorted distinct rows (inverse_indices)
inverse_indices(rounded) ==
    [i \in 1..Len(rounded) |->
        Cardinality({r \in {rounded[j] : j \in 1..Len(rounded)} : LexLess(r, rounded[i])})]

\* (mutant) the first occurrences of the distinct rows in the order of the
\* input, not in sorted order
unique_indices_InputOrder(rounded) ==
    LET firsts == {i \in 1..Len(rounded) : \A j \in 1..(i - 1) : rounded[j] # rounded[i]}
    IN  [k \in 1..Cardinality(firsts) |->
            CHOOSE i \in firsts : Cardinality({j \in firsts : j < i}) = k - 1]

\* lines 224-226: 1-based position in rounded of the first occurrence of each
\* distinct row, in sorted order (unique_indices)
unique_indices(rounded) ==
    LET inv == inverse_indices(rounded)
        n_unique == Cardinality({rounded[j] : j \in 1..Len(rounded)})
    IN  [k \in 1..n_unique |->
            CHOOSE i \in 1..Len(rounded) :
                /\ inv[i] = k - 1
                /\ \A j \in 1..(i - 1) : inv[j] # k - 1]

\* (mutant) the welded vertices with the faces of the decoder, not re-indexed
merge_duplicate_vertices_OldFaces(m) ==
    LET rounded == [i \in 1..Len(m.vertices) |-> Quantize(m.vertices[i])]
        uniq == unique_indices(rounded)
    IN  STLMesh([k \in 1..Len(uniq) |-> m.vertices[uniq[k]]], m.faces, m.normals, m.name)

\* lines 217-236
merge_duplicate_vertices(m) ==
    LET rounded == [i \in 1..Len(m.vertices) |-> Quantize(m.vertices[i])]
        uniq == unique_indices(rounded)
        inv == inverse_indices(rounded)
    IN  STLMesh([k \in 1..Len(uniq) |-> m.vertices[uniq[k]]],
                [f \in 1..Len(m.faces) |-> [k \in 1..3 |-> inv[m.faces[f][k] + 1]]],
                m.normals, m.name)

Raised(error) == [NoMesh EXCEPT !.error = error]

\* the recognizer's variables while a parse call is modelled
RecognizerIdle ==
    /\ mesh = "plate"
    /\ config = FeatureRecognitionConfig
    /\ features = <<>>
    /\ remaining_faces = {}
    /\ type_idx = 1
    /\ pc = "idle"
    /\ it = 0
    /\ best = NoBest
    /\ calls = 0

\* STLParser(merge_vertices) and a call of parse(file_path)
ParseInit ==
    /\ file \in Files
    /\ merge_vertices \in BOOLEAN
    /\ ppc = "start"
    /\ dec = Decoder("")
    /\ out = NoMesh
    /\ seen = NothingSeen
    /\ RecognizerIdle
    /\ EquivalenceIdle
    /\ FitterIdle
    /\ RestIdle

\* lines 90-91
ParseNotFound ==
    /\ ppc = "start" /\ ~file.exists
    /\ ppc' = "raised"
    /\ out' = Raised("FileNotFoundError")
    /\ UNCHANGED <<seen, file, merge_vertices, dec>> /\ UNCHANGED NotParser

\* lines 94-95, 128: _is_ascii, then the whole file decodes
OpenAscii ==
    /\ ppc = "start" /\ file.exists
    /\ is_ascii(file) /\ file.decodable
    /\ ppc' = "ascii"
    /\ dec' = Decoder(Stem)
    /\ UNCHANGED <<seen, file, merge_vertices, out>> /\ UNCHANGED NotParser

\* line 128: a byte past the first 1000 does not decode
AsciiDecodeRaises ==
    /\ ppc = "start" /\ file.exists
    /\ is_ascii(file) /\ ~file.decodable
    /\ ppc' = "raised"
    /\ out' = Raised("UnicodeDecodeError")
    /\ UNCHANGED <<seen, file, merge_vertices, dec>> /\ UNCHANGED NotParser

\* lines 136-158: one line of the file; the files tried hold at most
\* MaxTriangles complete facets and at most four vertex lines in a row
AsciiLine ==
    /\ ppc = "ascii"
    /\ \E line \in Lines :
          /\ ~LineRaises(line)
          /\ file.content # "facets" => line.keyword \notin {"facet", "vertex"}
          /\ Len(dec.triangles) = MaxTriangles => line.keyword \notin {"facet", "vertex"}
          /\ Len(parse_ascii_line(dec, line).current_vertices) <= 4
          /\ dec' = parse_ascii_line(dec, line)
          /\ seen' = SeenAfter(seen, line)
    /\ UNCHANGED <<file, merge_vertices, ppc, out>> /\ UNCHANGED NotParser

\* lines 144, 147: float() raises ValueError
AsciiValueError ==
    /\ ppc = "ascii"
    /\ file.content = "bad_number"
    /\ \E line \in Lines : LineRaises(line)
    /\ ppc' = "raised"
    /\ out' = Raised("ValueError")
    /\ dec' = Decoder("")
    /\ seen' = NothingSeen
    /\ UNCHANGED <<file, merge_vertices>> /\ UNCHANGED NotParser

\* lines 160-173: the lines are exhausted
AsciiEnd ==
    /\ ppc = "ascii"
    /\ ppc' = "parsed"
    /\ out' = DecodedMesh(dec)
    /\ dec' = Decoder("")
    /\ seen' = NothingSeen
    /\ UNCHANGED <<file, merge_vertices>> /\ UNCHANGED NotParser

\* lines 96-97, 178-194: not ASCII; header and count are read
OpenBinary ==
    /\ ppc = "start" /\ file.exists
    /\ ~is_ascii(file)
    /\ file.size >= HeaderBytes + CountBytes
    /\ ppc' = "binary"
    /\ dec' = Decoder(BinaryName(file))
    /\ UNCHANGED <<seen, file, merge_vertices, out>> /\ UNCHANGED NotParser

\* line 189: f.read(4) returns fewer than four bytes; struct.unpack raises
BinaryCountRaises ==
    /\ ppc = "start" /\ file.exists
    /\ ~is_ascii(file)
    /\ file.size < HeaderBytes + CountBytes
    /\ ppc' = "raised"
    /\ out' = Raised("struct.error")
    /\ UNCHANGED <<seen, file, merge_vertices, dec>> /\ UNCHANGED NotParser

\* lines 197-208: one triangle; the two attribute bytes are read unchecked
BinaryTriangle ==
    /\ ppc = "binary"
    /\ Len(dec.triangles) < file.count
    /\ file.size >= TriangleFloatsEnd(Len(dec.triangles))
    /\ \E normal \in Normals, vertices \in [1..3 -> Vertices] :
          dec' = [dec EXCEPT !.triangles = Append(@, vertices),
                             !.normals = Append(@, normal)]
    /\ UNCHANGED <<seen, file, merge_vertices, ppc, out>> /\ UNCHANGED NotParser

\* lines 199, 204: a read of twelve bytes comes back short; struct.unpack raises
BinaryTriangleRaises ==
    /\ ppc = "binary"
    /\ Len(dec.triangles) < file.count
    /\ file.size < TriangleFloatsEnd(Len(dec.triangles))
    /\ ppc' = "raised"
    /\ out' = Raised("struct.error")
    /\ dec' = Decoder("")
    /\ UNCHANGED <<seen, file, merge_vertices>> /\ UNCHANGED NotParser

\* lines 210-215: range(num_triangles) is exhausted
BinaryEnd ==
    /\ ppc = "binary"
    /\ Len(dec.triangles) = file.count
    /\ ppc' = "parsed"
    /\ out' = DecodedMesh(dec)
    /\ dec' = Decoder("")
    /\ UNCHANGED <<seen, file, merge_vertices>> /\ UNCHANGED NotParser

\* lines 99-102 with merge_vertices set
Weld ==
    /\ ppc = "parsed" /\ merge_vertices
    /\ ppc' = "returned"
    /\ out' = merge_duplicate_vertices(out)
    /\ UNCHANGED <<seen, file, merge_vertices, dec>> /\ UNCHANGED NotParser

\* lines 99-102 with merge_vertices unset
ReturnDecoded ==
    /\ ppc = "parsed" /\ ~merge_vertices
    /\ ppc' = "returned"
    /\ UNCHANGED <<seen, file, merge_vertices, dec, out>> /\ UNCHANGED NotParser

\* _merge_duplicate_vertices called on a mesh parse returned welded
WeldAgain ==
    /\ ppc = "returned" /\ merge_vertices
    /\ ppc' = "rewelded"
    /\ out' = merge_duplicate_vertices(out)
    /\ UNCHANGED <<seen, file, merge_vertices, dec>> /\ UNCHANGED NotParser

ParseNext ==
    \/ ParseNotFound
    \/ OpenAscii
    \/ AsciiDecodeRaises
    \/ AsciiLine
    \/ AsciiValueError
    \/ AsciiEnd
    \/ OpenBinary
    \/ BinaryCountRaises
    \/ BinaryTriangle
    \/ BinaryTriangleRaises
    \/ BinaryEnd
    \/ Weld
    \/ ReturnDecoded
    \/ WeldAgain

ParseSpec == ParseInit /\ [][ParseNext]_vars

(***************************************************************************)
(* Claims about STLParser.parse                                            *)
(***************************************************************************)
\* C10: every mesh parse returns, from an ASCII or a binary file, welded or
\* not, has every index of every face in 0..len(vertices)-1 and as many
\* normals as faces
C10_MeshWellFormed ==
    ppc = "returned" =>
        /\ \A f \in 1..Len(out.faces) : \A k \in 1..3 :
              out.faces[f][k] \in 0..(Len(out.vertices) - 1)
        /\ Len(out.normals) = Len(out.faces)

\* a welded mesh of two faces that share a vertex is returned
C10_Witness ==
    /\ ppc = "returned" /\ merge_vertices
    /\ Len(out.faces) = 2
    /\ Len(out.vertices) \in 2..5

\* C11: in _parse_ascii a facet is emitted at an endfacet line exactly when
\* three well-formed vertex lines and at least one well-formed facet normal
\* line were read since the previous endfacet line (or the start): the
\* emitted triangle is those three vertices with the last normal read; every
\* endfacet line empties the in-progress normal and vertices; otherwise the
\* lists are untouched; triangles and normals always have equal length.
C11_FacetState == Len(dec.triangles) = Len(dec.normals)

C11_FacetStep ==
    (ppc = "ascii" /\ ppc' = "ascii") =>
        LET complete == Len(seen.vertices) = 3 /\ seen.normals # <<>>
            at_endfacet == seen'.line = "endfacet" /\ seen' # seen
        IN  /\ (Len(dec'.triangles) = Len(dec.triangles) + 1)
                  <=> (at_endfacet /\ complete)
            /\ (at_endfacet /\ complete)
                  => /\ dec'.triangles = Append(dec.triangles, seen.vertices)
                     /\ dec'.normals = Append(dec.normals, seen.normals[1])
            /\ ~(at_endfacet /\ complete)
                  => dec'.triangles = dec.triangles /\ dec'.normals = dec.normals
            /\ seen'.line = "endfacet"
                  => dec'.current_vertices = <<>> /\ dec'.current_normal = <<>>

C11_FacetEmission == [](C11_FacetState) /\ [][C11_FacetStep]_vars

\* one facet has been emitted and the next holds four vertices and a normal
C11_Witness ==
    /\ ppc = "ascii"
    /\ Len(dec.triangles) = 1
    /\ Len(seen.vertices) = 4 /\ seen.normals # <<>>

\* C12: welding is idempotent: _merge_duplicate_vertices applied to a mesh it
\* returned gives the same vertices in the same order and the same faces,
\* normals and name.
C12_WeldIdempotent == [][(ppc = "returned" /\ ppc' = "rewelded") => out' = out]_vars

\* a mesh of two faces in which welding had merged vertices was welded again
C12_Witness ==
    /\ ppc = "rewelded"
    /\ Len(out.faces) = 2
    /\ Len(out.vertices) \in 2..5

\* STLMesh.bounds (lines 32-35): per-axis minimum and maximum of the vertices
Bounds(m) ==
    LET axis(k) == {m.vertices[i][k] : i \in 1..Len(m.vertices)}
        lo(k) == CHOOSE x \in axis(k) : \A y \in axis(k) : x <= y
        hi(k) == CHOOSE x \in axis(k) : \A y \in axis(k) : x >= y
    IN  <<[k \in 1..3 |-> lo(k)], [k \in 1..3 |-> hi(k)]>>

\* C13: welding never changes the bounding box: the per-axis minimum and
\* maximum of the vertices after _merge_duplicate_vertices equal those before.
C13_WeldKeepsBounds ==
    [][(ppc = "parsed" /\ ppc' = "returned" /\ merge_vertices /\ Len(out.vertices) > 0)
         => Bounds(out') = Bounds(out)]_vars

\* C14: after welding no two vertices have the same quantized coordinates,
\* there is exactly one vertex per distinct quantized coordinate of the input,
\* every face corner points to a vertex with the quantized coordinates of the
\* vertex it pointed to before, and the faces keep their number and order.
C14_WeldStep ==
    (ppc = "parsed" /\ ppc' = "returned" /\ merge_vertices) =>
        LET before == out
            after == out'
            cell(m, i) == Quantize(m.vertices[i + 1])
        IN  /\ \A i, j \in 1..Len(after.vertices) :
                  i # j => Quantize(after.vertices[i]) # Quantize(after.vertices[j])
            /\ {Quantize(after.vertices[i]) : i \in 1..Len(after.vertices)}
                  = {Quantize(before.vertices[i]) : i \in 1..Len(before.vertices)}
            /\ Len(after.faces) = Len(before.faces)
            /\ \A f \in 1..Len(before.faces) : \A k \in 1..3 :
                  cell(after, after.faces[f][k]) = cell(before, before.faces[f][k])

C14_WeldQuantizes == [][C14_WeldStep]_vars

\* a welded mesh of two faces whose corners were remapped onto fewer vertices,
\* two of them at least
C14_Witness ==
    /\ ppc = "returned" /\ merge_vertices
    /\ Len(out.faces) = 2
    /\ Len(out.vertices) = 2
    /\ out.faces[1] # out.faces[2]

\* the decoder parse hands the file to, seen from the step that leaves "start"
ClassifiedAscii ==
    ppc = "ascii" \/ (ppc = "raised" /\ out.error = "UnicodeDecodeError")

\* C15: a file is decoded as ASCII exactly when its first 80 bytes decode as
\* ASCII text beginning with "solid" and the lookahead chunk that follows the
\* header contains "facet" or "vertex"; every other file, one whose only
\* "facet" or "vertex" is inside the header included, is decoded as binary.
C15_DetectionStep ==
    (ppc = "start" /\ file.exists /\ ppc' # "start")
        => (ClassifiedAscii' <=> (file.header = "solid" /\ file.body = "token"))

C15_Detection == [][C15_DetectionStep]_vars

\* C16: binary decoding of a file shorter than its count requires (fewer than
\* 84 + 50 * count bytes) fails and never returns a mesh.
C16_TruncatedBinaryFails ==
    ~(/\ ppc \in {"parsed", "returned", "rewelded"}
      /\ ~is_ascii(file)
      /\ file.size < TriangleStart(file.count))

\* lines 128-158: _parse_ascii returns a mesh for the file
AsciiAccepts(f) == f.decodable /\ f.content # "bad_number"

\* lines 178-208: _parse_binary returns a mesh for the file
BinaryAccepts(f) ==
    /\ f.size >= HeaderBytes + CountBytes
    /\ f.count > 0 => f.size >= TriangleFloatsEnd(f.count - 1)

\* C17: parse of a missing path fails with the not-found condition; parse of
\* an existing file fails only when neither decoder can decode it: a file one
\* of the decoders accepts is returned as a mesh, whichever decoder format
\* detection picked first.
C17_FailsOnlyIfNeitherDecodes ==
    /\ (ppc = "raised" /\ ~file.exists) => out.error = "FileNotFoundError"
    /\ (ppc = "raised" /\ file.exists) => ~AsciiAccepts(file) /\ ~BinaryAccepts(file)

(***************************************************************************)
(* One triangle list written as an ASCII and as a binary STL file, and     *)
(* parse called on each.  The files follow the layout the two decoders     *)
(* read; the numbers are text numerals in the one and floats in the other. *)
(***************************************************************************)
RECURSIVE Power(_, _)
Power(b, e) == IF e = 0 THEN 1 ELSE b * Power(b, e - 1)

RECURSIVE Reduced(_, _, _)
\* x = m * b^e with m not a multiple of b (m = 0, e = 0 for x = 0)
Reduced(x, b, e) ==
    IF x = 0 THEN <<0, 0>>
    ELSE IF x % b = 0 THEN Reduced(x \div b, b, e + 1)
    ELSE <<x, e>>

\* a coordinate as a writer puts it in a text line (digits and a power of
\* ten) and in a binary record (significand and a power of two)
DecimalText(x) == [digits |-> Reduced(x, 10, 0)[1], exponent |-> Reduced(x, 10, 0)[2]]
Float32(x) == [significand |-> Reduced(x, 2, 0)[1], exponent |-> Reduced(x, 2, 0)[2]]

\* lines 144, 147: float() of one word of a line
float(text) == text.digits * Power(10, text.exponent)

\* lines 199, 204: one of the three values of struct.unpack("<3f", ...)
unpack_float(f) == f.significand * Power(2, f.exponent)

\* the corners of the triangles tried: the vertices above and one whose
\* coordinates are not single digits
Corners == Vertices \cup {<<10, 0, 4>>}

SourceTriangles ==
    {[normal |-> n, vertices |-> <<a, b, <<0, 2, 0>>>>] : n \in Normals, a \in Corners, b \in Corners}

\* the triangle lists tried: up to MaxTriangles triangles, the empty list
\* included
Geometries == UNION {[1..n -> SourceTriangles] : n \in 0..MaxTriangles}

TextLine(keyword, v) ==
    [keyword |-> keyword, parts |-> "full", text |-> [k \in 1..Len(v) |-> DecimalText(v[k])]]

RECURSIVE AsciiFacets(_)
\* the lines of the facets: facet normal, outer loop, three vertex lines,
\* endloop, endfacet
AsciiFacets(triangles) ==
    IF triangles = <<>> THEN <<>>
    ELSE LET t == Head(triangles)
         IN  <<TextLine("facet", t.normal), TextLine("other", <<>>),
               TextLine("vertex", t.vertices[1]), TextLine("vertex", t.vertices[2]),
               TextLine("vertex", t.vertices[3]),
               TextLine("other", <<>>), TextLine("endfacet", <<>>)>>
             \o AsciiFacets(Tail(triangles))

\* the lines of the ASCII file: solid <name>, the facets, endsolid <name>
AsciiEncoding(triangles) ==
    <<TextLine("solid", <<>>)>> \o AsciiFacets(triangles) \o <<TextLine("other", <<>>)>>

\* the records of the binary file: twelve floats each
BinaryEncoding(triangles) ==
    [i \in 1..Len(triangles) |->
        [normal |-> [k \in 1..3 |-> Float32(triangles[i].normal[k])],
         vertices |-> [j \in 1..3 |-> [k \in 1..3 |-> Float32(triangles[i].vertices[j][k])]]]]

\* the ASCII file as parse and _is_ascii see it: it begins with "solid"; its
\* first 1000 bytes hold "facet" when there is a facet; the two lines of an
\* empty solid are fewer bytes than a binary header
AsciiFile(triangles) ==
    IF triangles = <<>>
    THEN File("solid", FALSE, "plain", TRUE, "no_facets", HeaderBytes - 1, 0)
    ELSE File("solid", FALSE, "token", TRUE, "facets",
              TriangleStart(Len(triangles)), TriangleStart(Len(triangles)))

\* the binary file: a header that is text but not "solid", the count, and
\* count complete records
BinaryFile(triangles) ==
    File("plain", FALSE, "nonascii", FALSE, "no_facets",
         TriangleStart(Len(triangles)), Len(triangles))

EncodedFile == IF encoding = "ascii" THEN AsciiFile(geometry) ELSE BinaryFile(geometry)

\* lines 137-147: a line split into words, its numbers converted
ParsedLine(l) ==
    [keyword |-> l.keyword, parts |-> l.parts,
     value |-> [k \in 1..Len(l.text) |-> float(l.text[k])]]

\* lines 197-205: the normal and the vertices of one record
UnpackedRecord(r) ==
    [normal |-> [k \in 1..3 |-> unpack_float(r.normal[k])],
     vertices |-> [j \in 1..3 |-> [k \in 1..3 |-> unpack_float(r.vertices[j][k])]]]

Reading(locals, rest) == [locals |-> locals, rest |-> rest]

\* lines 99-102
Returned(m) == IF merge_vertices THEN merge_duplicate_vertices(m) ELSE m

\* STLParser(merge_vertices) and the triangle list of the two files
PairInit ==
    /\ geometry \in Geometries
    /\ merge_vertices \in BOOLEAN
    /\ epc = "start"
    /\ encoding = "ascii"
    /\ edec = Reading(Decoder(""), <<>>)
    /\ ascii_mesh = NoMesh
    /\ binary_mesh = NoMesh
    /\ file = NoFile /\ ppc = "idle" /\ dec = Decoder("") /\ out = NoMesh /\ seen = NothingSeen
    /\ RecognizerIdle
    /\ FitterIdle
    /\ RestIdle

\* what parse gave for the file it was called on
Deliver(m) ==
    /\ ascii_mesh' = IF encoding = "ascii" THEN m ELSE ascii_mesh
    /\ binary_mesh' = IF encoding = "binary" THEN m ELSE binary_mesh

\* lines 94-95, 128-129
PairOpenAscii ==
    /\ epc = "start"
    /\ is_ascii(EncodedFile) /\ EncodedFile.decodable
    /\ epc' = "ascii"
    /\ edec' = Reading(Decoder(Stem), AsciiEncoding(geometry))
    /\ UNCHANGED <<geometry, merge_vertices, encoding, ascii_mesh, binary_mesh>>
    /\ UNCHANGED NotEquivalence

\* lines 136-158: the next line of the file
PairAsciiLine ==
    /\ epc = "ascii" /\ edec.rest # <<>>
    /\ edec' = Reading(parse_ascii_line(edec.locals, ParsedLine(Head(edec.rest))),
                       Tail(edec.rest))
    /\ UNCHANGED <<geometry, merge_vertices, epc, encoding, ascii_mesh, binary_mesh>>
    /\ UNCHANGED NotEquivalence

\* lines 160-173, 99-102: the lines are exhausted; parse returns
PairAsciiEnd ==
    /\ epc = "ascii" /\ edec.rest = <<>>
    /\ epc' = "returned"
    /\ Deliver(Returned(DecodedMesh(edec.locals)))
    /\ edec' = Reading(Decoder(""), <<>>)
    /\ UNCHANGED <<geometry, merge_vertices, encoding>>
    /\ UNCHANGED NotEquivalence

\* lines 96-97, 178-194
PairOpenBinary ==
    /\ epc = "start"
    /\ ~is_ascii(EncodedFile)
    /\ EncodedFile.size >= HeaderBytes + CountBytes
    /\ epc' = "binary"
    /\ edec' = Reading(Decoder(BinaryName(EncodedFile)), BinaryEncoding(geometry))
    /\ UNCHANGED <<geometry, merge_vertices, encoding, ascii_mesh, binary_mesh>>
    /\ UNCHANGED NotEquivalence

\* line 189: f.read(4) returns fewer than four bytes; struct.unpack raises
PairCountRaises ==
    /\ epc = "start"
    /\ ~is_ascii(EncodedFile)
    /\ EncodedFile.size < HeaderBytes + CountBytes
    /\ epc' = "raised"
    /\ Deliver(Raised("struct.error"))
    /\ UNCHANGED <<geometry, merge_vertices, encoding, edec>>
    /\ UNCHANGED NotEquivalence

\* lines 197-208: the next record of the file
PairBinaryTriangle ==
    /\ epc = "binary"
    /\ Len(edec.locals.triangles) < EncodedFile.count
    /\ LET r == UnpackedRecord(Head(edec.rest))
       IN  edec' = Reading([edec.locals EXCEPT !.triangles = Append(@, r.vertices),
                                               !.normals = Append(@, r.normal)],
                           Tail(edec.rest))
    /\ UNCHANGED <<geometry, merge_vertices, epc, encoding, ascii_mesh, binary_mesh>>
    /\ UNCHANGED NotEquivalence

\* lines 210-215, 99-102: range(num_triangles) is exhausted; parse returns
PairBinaryEnd ==
    /\ epc = "binary"
    /\ Len(edec.locals.triangles) = EncodedFile.count
    /\ epc' = "returned"
    /\ Deliver(Returned(DecodedMesh(edec.locals)))
    /\ edec' = Reading(Decoder(""), <<>>)
    /\ UNCHANGED <<geometry, merge_vertices, encoding>>
    /\ UNCHANGED NotEquivalence

\* parse is called on the binary file of the same triangle list
PairSecondCall ==
    /\ epc \in {"returned", "raised"} /\ encoding = "ascii"
    /\ encoding' = "binary"
    /\ epc' = "start"
    /\ UNCHANGED <<geometry, merge_vertices, edec, ascii_mesh, binary_mesh>>
    /\ UNCHANGED NotEquivalence

\* both calls are over
PairDone ==
    /\ epc \in {"returned", "raised"} /\ encoding = "binary"
    /\ epc' = "done"
    /\ UNCHANGED <<geometry, merge_vertices, encoding, edec, ascii_mesh, binary_mesh>>
    /\ UNCHANGED NotEquivalence

PairNext ==
    \/ PairOpenAscii
    \/ PairAsciiLine
    \/ PairAsciiEnd
    \/ PairOpenBinary
    \/ PairCountRaises
    \/ PairBinaryTriangle
    \/ PairBinaryEnd
    \/ PairSecondCall
    \/ PairDone

PairSpec == PairInit /\ [][PairNext]_vars

\* the two bounding boxes differ by at most the merge tolerance on every axis
BoundsWithinTolerance(a, b) ==
    \A s \in 1..2 : \A k \in 1..3 :
        /\ Bounds(a)[s][k] - Bounds(b)[s][k] <= MergeTolerance
        /\ Bounds(b)[s][k] - Bounds(a)[s][k] <= MergeTolerance

\* the two meshes have equal vertex count, equal face count and bounding
\* boxes within the merge tolerance
MeshesAgree ==
    /\ ascii_mesh.error = "none" /\ binary_mesh.error = "none"
    /\ Len(ascii_mesh.vertices) = Len(binary_mesh.vertices)
    /\ Len(ascii_mesh.faces) = Len(binary_mesh.faces)
    /\ (Len(ascii_mesh.vertices) > 0 /\ Len(binary_mesh.vertices) > 0)
           => BoundsWithinTolerance(ascii_mesh, binary_mesh)

\* C18: for the same list of triangles encoded once as ASCII STL and once as
\* binary STL, parse returns meshes with equal vertex count, equal face count
\* and equal bounding box (within the merge tolerance), with welding enabled
\* and with welding disabled.
C18_EncodingsAgree == epc = "done" => MeshesAgree

\* the same, for the lists that hold at least one triangle
NonEmptyEncodingsAgree == (epc = "done" /\ geometry # <<>>) => MeshesAgree

(***************************************************************************)
(* SurfaceFitter.fit_with_refinement.  Parameters and knots are integers   *)
(* in the unit 1 / One; a knot vector carries the factor its entries are   *)
(* multiplied by, so that the interpolated percentiles stay integers.  The *)
(* density is the fraction <<numerator, denominator>>.                     *)
(***************************************************************************)
MaxRefinements == 2

\* line 251: the value 1.0 of a parameter or knot
One == 12

\* nurbs_degree_u, nurbs_degree_v (config.py lines 72-73: 3) and the other
\* degrees a configuration is given
Degrees == {1, 3, 5}

\* control_points_density (config.py line 76: 0.1) and denser settings
Densities == {<<1, 10>>, <<6, 1>>, <<40, 1>>}

\* u_params and v_params of lines 203-204: the smallest is 0, the largest
\* just below 1; for points that all coincide every entry is 0
ParamLists == {<<0, 11, 4, 4>>, <<5, 0, 11, 7, 11, 0, 2, 2, 9>>}
CoincidentParams == <<0, 0, 0, 0>>

\* the points tried, by what fit computes from them: the parameters, and
\* np.sqrt(ratio) of line 234 as a fraction: just below 1, 1, large (points
\* close to a line), and 0 (points that all coincide)
FitInputs ==
    {[u_params |-> u, v_params |-> v, sqrt_ratio |-> r] :
        u \in ParamLists, v \in ParamLists,
        r \in {<<99, 100>>, <<1, 1>>, <<1000, 1>>}} \cup
    {[u_params |-> CoincidentParams, v_params |-> CoincidentParams, sqrt_ratio |-> <<0, 1>>]}

\* max_error of a fit in units of the target: what griddata and the spline
\* evaluation give is not computed here, every value can come back
Errors == 0..2

Clamp(lo, x, hi) == IF x < lo THEN lo ELSE IF x > hi THEN hi ELSE x

\* np.sqrt(n_points) of line 225, for the point counts tried (squares)
SqrtCount(p) == CHOOSE r \in 0..Len(p.u_params) : r * r = Len(p.u_params)

\* lines 221-241: n_u and n_v; int() truncates
compute_grid_size(p, density) ==
    LET n_total == Clamp(4, (SqrtCount(p) * density[1]) \div (2 * density[2]), 30)
        n_u == (n_total * p.sqrt_ratio[1]) \div p.sqrt_ratio[2]
        n_v == (n_total * p.sqrt_ratio[2]) \div p.sqrt_ratio[1]
    IN  <<Clamp(4, n_u, 20), Clamp(4, n_v, 20)>>

\* line 235: n_total / np.sqrt(ratio) is infinite and int() raises
GridSizeRaises(p) == p.sqrt_ratio[1] = 0

\* np.percentile sorts: 1-based entry i of the sorted params
SortedParam(params, i) ==
    CHOOSE x \in {params[j] : j \in 1..Len(params)} :
        /\ Cardinality({j \in 1..Len(params) : params[j] < x}) < i
        /\ Cardinality({j \in 1..Len(params) : params[j] <= x}) >= i

\* lines 255-256: np.percentile(params, 100 * k / d), times d; linear
\* interpolation between the two nearest sorted entries
Percentile(params, k, d) ==
    LET h == (Len(params) - 1) * k
        below == SortedParam(params, h \div d + 1)
        above == SortedParam(params, h \div d + 2)
    IN  d * below + (h % d) * (above - below)

\* lines 243-260: knots[i - 1] for i in 1..n_knots, times scale
create_knot_vector(params, n_control, degree) ==
    LET n_knots == n_control + degree + 1
        n_internal == n_knots - 2 * (degree + 1)
        scale == IF n_internal > 0 THEN n_internal + 1 ELSE 1
    IN  [scale |-> scale,
         knots |-> [i \in 1..n_knots |->
            IF n_internal > 0 /\ i \in (degree + 2)..(degree + 1 + n_internal)
            THEN Percentile(params, i - (degree + 1), scale)
            ELSE IF i > n_knots - (degree + 1) THEN One * scale
            ELSE 0]]

\* lines 132-183: fit, called as the call-th fit, with max_error e
fit(p, cfg, call, e) ==
    LET grid == compute_grid_size(p, cfg.control_points_density)
    IN  [call |-> call, max_error |-> e, n_u |-> grid[1], n_v |-> grid[2],
         knots_u |-> create_knot_vector(p.u_params, grid[1], cfg.nurbs_degree_u),
         knots_v |-> create_knot_vector(p.v_params, grid[2], cfg.nurbs_degree_v)]

\* SurfaceFitter(config) and a call of fit_with_refinement
FitInit ==
    /\ fit_points \in FitInputs
    /\ fconfig \in {[nurbs_degree_u |-> du, nurbs_degree_v |-> dv, control_points_density |-> d] :
                        du \in Degrees, dv \in Degrees, d \in Densities}
    /\ target_error = 1
    /\ max_refinements \in 0..MaxRefinements
    /\ fitted = NoFit
    /\ fits = 0
    /\ refinements = 0
    /\ fpc = "start"
    /\ RecognizerIdle
    /\ ParserIdle
    /\ EquivalenceIdle
    /\ RestIdle

\* line 336
FirstFit ==
    /\ fpc = "start" /\ ~GridSizeRaises(fit_points)
    /\ \E e \in Errors : fitted' = fit(fit_points, fconfig, 1, e)
    /\ fits' = 1
    /\ fpc' = "loop"
    /\ UNCHANGED <<fit_points, fconfig, target_error, max_refinements, refinements>>
    /\ UNCHANGED NotFitter

\* line 336: fit raises in _compute_grid_size
FitRaises ==
    /\ fpc = "start" /\ GridSizeRaises(fit_points)
    /\ fits' = 1
    /\ fpc' = "raised"
    /\ UNCHANGED <<fit_points, fconfig, target_error, max_refinements, fitted, refinements>>
    /\ UNCHANGED NotFitter

\* (mutant) the loop is left whatever the error is
FitBreak_Always ==
    /\ fpc = "loop" /\ refinements < max_refinements
    /\ fpc' = "returned"
    /\ refinements' = refinements + 1
    /\ UNCHANGED <<fit_points, fconfig, target_error, max_refinements, fitted, fits>>
    /\ UNCHANGED NotFitter

\* lines 338-340, 346: an iteration starts, the error is within the target,
\* break; fitted is returned
FitBreak ==
    /\ fpc = "loop" /\ refinements < max_refinements
    /\ fitted.max_error <= target_error
    /\ fpc' = "returned"
    /\ refinements' = refinements + 1
    /\ UNCHANGED <<fit_points, fconfig, target_error, max_refinements, fitted, fits>>
    /\ UNCHANGED NotFitter

\* lines 338-344: an iteration starts, the error is above the target; the
\* density is multiplied by 1.5 and fit is called again
Refine ==
    /\ fpc = "loop" /\ refinements < max_refinements
    /\ ~(fitted.max_error <= target_error)
    /\ LET density == <<3 * fconfig.control_points_density[1],
                        2 * fconfig.control_points_density[2]>>
       IN  /\ fconfig' = [fconfig EXCEPT !.control_points_density = density]
           /\ \E e \in Errors : fitted' = fit(fit_points, fconfig', fits + 1, e)
    /\ fits' = fits + 1
    /\ refinements' = refinements + 1
    /\ UNCHANGED <<fit_points, target_error, max_refinements, fpc>>
    /\ UNCHANGED NotFitter

\* lines 338, 346: range(max_refinements) is exhausted; fitted is returned
LoopExhausted ==
    /\ fpc = "loop" /\ refinements = max_refinements
    /\ fpc' = "returned"
    /\ UNCHANGED <<fit_points, fconfig, target_error, max_refinements, fitted, fits, refinements>>
    /\ UNCHANGED NotFitter

FitNext ==
    \/ FirstFit
    \/ FitRaises
    \/ FitBreak
    \/ Refine
    \/ LoopExhausted

FitSpec == FitInit /\ [][FitNext]_vars

(***************************************************************************)
(* Claims about SurfaceFitter                                              *)
(***************************************************************************)
\* a clamped knot vector for n_control control points of the given degree
ClampedKnots(kv, n_control, degree) ==
    LET n == Len(kv.knots)
    IN  /\ n = n_control + degree + 1
        /\ \A i \in 1..(degree + 1) : kv.knots[i] = 0
        /\ \A i \in (n - degree)..n : kv.knots[i] = One * kv.scale
        /\ \A i \in 1..(n - 1) : kv.knots[i] <= kv.knots[i + 1]

\* C19: for every control-point count the grid-sizing step produces and every
\* configured degree, the knot vector _create_knot_vector returns has
\* n_control + degree + 1 entries, its first degree + 1 entries are 0, its
\* last degree + 1 entries are 1, and it is non-decreasing.
C19_KnotVectors ==
    fitted.call > 0 =>
        /\ ClampedKnots(fitted.knots_u, fitted.n_u, fconfig.nurbs_degree_u)
        /\ ClampedKnots(fitted.knots_v, fitted.n_v, fconfig.nurbs_degree_v)

\* the same, for the degrees up to the smallest grid size less one
KnotVectorsUpToCubic ==
    (fitted.call > 0 /\ fconfig.nurbs_degree_u <= 3 /\ fconfig.nurbs_degree_v <= 3)
        => /\ ClampedKnots(fitted.knots_u, fitted.n_u, fconfig.nurbs_degree_u)
           /\ ClampedKnots(fitted.knots_v, fitted.n_v, fconfig.nurbs_degree_v)

\* a knot vector with interior knots at the percentiles has been made
KnotVectorsReached ==
    /\ fitted.call > 0
    /\ fitted.n_u \in 5..20 /\ fitted.n_v \in 5..20
    /\ fitted.n_u # fitted.n_v
    /\ \E i \in 1..Len(fitted.knots_v.knots) :
          fitted.knots_v.knots[i] \notin {0, One * fitted.knots_v.scale}

\* C20, in every state: between 1 and 1 + max_refinements fits have been
\* made once the first is over; what is returned is the last fit; a returned
\* fit whose max_error is above target_error is fit number 1 + max_refinements
C20_FitState ==
    /\ fpc \in {"loop", "returned"} => fits \in 1..(1 + max_refinements)
    /\ fpc = "returned" =>
          /\ fitted.call = fits
          /\ fitted.max_error > target_error => fits = 1 + max_refinements

\* C20, in every step: a fit after the first is made only while max_error is
\* above target_error, and the density is multiplied by 1.5 before it; the
\* density changes at no other step
C20_FitStep ==
    /\ (fits >= 1 /\ fits' # fits) =>
          /\ fits' = fits + 1
          /\ fitted.max_error > target_error
          /\ 2 * fconfig'.control_points_density[1] * fconfig.control_points_density[2]
                = 3 * fconfig.control_points_density[1] * fconfig'.control_points_density[2]
          /\ fitted'.call = fits'
    /\ (fits' = fits \/ fits = 0) => fconfig' = fconfig
    /\ fits' = fits => fitted' = fitted

\* C20: fit_with_refinement(points, target_error, max_refinements) performs
\* between 1 and 1 + max_refinements fits, performs no further fit once a fit's
\* max_error is at most target_error, multiplies the control-point density by
\* 1.5 before each additional fit, and returns the last fit; if the returned
\* max_error exceeds target_error, exactly 1 + max_refinements fits were made.
C20_Refinement == [](C20_FitState) /\ [][C20_FitStep]_vars

\* a call that refined once, met the target and returned with a refinement
\* to spare
C20_Witness ==
    /\ fpc = "returned"
    /\ max_refinements = 2 /\ fits = 2
    /\ fitted.max_error <= target_error
    /\ fconfig.control_points_density = <<3, 20>>

\* C21: the configuration is an immutable input: no step of a
\* fit_with_refinement call changes a field of the SurfaceFittingConfig the
\* fitter was constructed with, so a later call on the same fitter starts
\* from the same control-point density.
C21_ConfigImmutable == [][fconfig' = fconfig]_vars

\* the recognizer's half of it: no step of recognize changes self.config
RecognizerConfigKept == [][config' = config]_vars

(***************************************************************************)
(* Two recognize invocations on different meshes that go through the same  *)
(* FeatureRecognizer.  A step is one access to self._mesh; what a detector *)
(* finds is left open.                                                     *)
(***************************************************************************)
CoreIdle == RecognizerIdle /\ ParserIdle /\ EquivalenceIdle /\ FitterIdle

Invocations == 1..2

\* an invocation about to run line 73; points_of and faces_of are the meshes
\* its last points and its last coverage_ratio were computed from
Invocation(m) == [mesh |-> m, ipc |-> "call", points_of |-> "none", faces_of |-> "none"]

ConcurrentInit ==
    /\ self_mesh = "none"
    /\ invocations \in {<<Invocation(m[1]), Invocation(m[2])>> :
                            m \in {n \in MeshNames \X MeshNames : n[1] # n[2]}}
    /\ CoreIdle /\ ServiceIdle /\ CallIdle

\* lines 73-78: self._mesh = mesh; remaining_faces is range(mesh.num_faces)
\* of the argument
Enter(i) ==
    /\ invocations[i].ipc = "call"
    /\ self_mesh' = invocations[i].mesh
    /\ invocations' = [invocations EXCEPT ![i].ipc = "loop"]
    /\ UNCHANGED NotConcurrent

\* lines 94-95, 126-135: the faces of the argument are looked up in
\* self._mesh
GetFacePoints(i) ==
    /\ invocations[i].ipc = "loop"
    /\ num_faces(MeshOf(self_mesh)) >= num_faces(MeshOf(invocations[i].mesh))
    /\ invocations' = [invocations EXCEPT ![i].ipc = "detect", ![i].points_of = self_mesh]
    /\ UNCHANGED self_mesh
    /\ UNCHANGED NotConcurrent

\* line 126: self._mesh has fewer faces than the argument; a face index is
\* out of bounds and the lookup raises IndexError
GetFacePointsRaises(i) ==
    /\ invocations[i].ipc = "loop"
    /\ num_faces(MeshOf(self_mesh)) < num_faces(MeshOf(invocations[i].mesh))
    /\ invocations' = [invocations EXCEPT ![i].ipc = "raised"]
    /\ UNCHANGED self_mesh
    /\ UNCHANGED NotConcurrent

\* lines 101-108, 214: the detector returns a feature, whose coverage_ratio
\* divides by self._mesh.num_faces; the while loop goes on
DetectFeature(i) ==
    /\ invocations[i].ipc = "detect"
    /\ invocations' = [invocations EXCEPT ![i].ipc = "loop", ![i].faces_of = self_mesh]
    /\ UNCHANGED self_mesh
    /\ UNCHANGED NotConcurrent

\* lines 109-112: the detector returns None, or the loops are over;
\* recognize returns
ReturnFeatures(i) ==
    /\ invocations[i].ipc \in {"loop", "detect"}
    /\ invocations' = [invocations EXCEPT ![i].ipc = "returned"]
    /\ UNCHANGED self_mesh
    /\ UNCHANGED NotConcurrent

ConcurrentNext ==
    \E i \in Invocations :
        \/ Enter(i)
        \/ GetFacePoints(i)
        \/ GetFacePointsRaises(i)
        \/ DetectFeature(i)
        \/ ReturnFeatures(i)

ConcurrentSpec == ConcurrentInit /\ [][ConcurrentNext]_vars

\* C22: concurrent recognize invocations on different meshes do not
\* interfere under any interleaving, also when they go through the same
\* FeatureRecognizer: the centroids, the normals and the face count used for
\* coverage_ratio come from the mesh passed to the invocation, and the
\* invocation does not fail where it would not fail alone.
C22_NoInterference ==
    \A i \in Invocations :
        /\ invocations[i].points_of \in {"none", invocations[i].mesh}
        /\ invocations[i].faces_of \in {"none", invocations[i].mesh}
        /\ invocations[i].ipc # "raised"

(***************************************************************************)
(* SurfaceFitter._compute_errors and the metrics fit derives from it.      *)
(* A point is given by its residual (the distance between the point and    *)
(* the surface at the point's own (u, v)) and by whether surface.evaluate  *)
(* raises for it.  The mean is the pair <<sum, count>>.                    *)
(***************************************************************************)
MaxPoints == 3

FitPoints == [residual : 0..2, raises : BOOLEAN]

RECURSIVE SeqSum(_)
SeqSum(s) == IF s = <<>> THEN 0 ELSE Head(s) + SeqSum(Tail(s))

SeqMax(s) == CHOOSE x \in {s[i] : i \in 1..Len(s)} : \A i \in 1..Len(s) : s[i] <= x

\* lines 314-324: errors[i] is the residual, or 0 when evaluate raised
compute_errors(pts) ==
    [i \in 1..Len(pts) |-> IF pts[i].raises THEN 0 ELSE pts[i].residual]

\* lines 175-183 and 114-116: fitting_error, max_error, and
\* is_acceptable(tolerance) of the FittedSurface fit returns
FittedMetrics(pts, tolerance) ==
    LET errors == compute_errors(pts)
    IN  [fitting_error |-> <<SeqSum(errors), Len(errors)>>,
         max_error |-> SeqMax(errors),
         is_acceptable |-> SeqMax(errors) <= tolerance]

ErrorsInit ==
    /\ arg \in [points : UNION {[1..n -> FitPoints] : n \in 1..MaxPoints}, tolerance : 0..2]
    /\ ret = <<>>
    /\ upc = "call"
    /\ CoreIdle /\ ConcurrentIdle /\ ServiceIdle

\* lines 175-183: fit computes the errors and returns the FittedSurface
ComputeErrors ==
    /\ upc = "call"
    /\ ret' = FittedMetrics(arg.points, arg.tolerance)
    /\ upc' = "returned"
    /\ UNCHANGED arg
    /\ UNCHANGED NotCall

ErrorsSpec == ErrorsInit /\ [][ComputeErrors]_vars

Residuals(pts) == [i \in 1..Len(pts) |-> pts[i].residual]

\* C23: for every FittedSurface fit returns, max_error is the maximum and
\* fitting_error the mean over all input points of the residual between the
\* point and the surface at the point's own (u, v); is_acceptable(tolerance)
\* is true only if every input point's residual is <= tolerance, and a point
\* whose evaluation fails never makes the fit look better than it is.
C23_ErrorsFaithful ==
    upc = "returned" =>
        /\ ret.max_error = SeqMax(Residuals(arg.points))
        /\ ret.fitting_error = <<SeqSum(Residuals(arg.points)), Len(arg.points)>>
        /\ ret.is_acceptable => \A i \in 1..Len(arg.points) : arg.points[i].residual <= arg.tolerance

\* the same, for the calls in which no evaluation raises
ErrorsFaithfulWhenEvaluated ==
    (upc = "returned" /\ \A i \in 1..Len(arg.points) : ~arg.points[i].raises) =>
        /\ ret.max_error = SeqMax(Residuals(arg.points))
        /\ ret.fitting_error = <<SeqSum(Residuals(arg.points)), Len(arg.points)>>
        /\ ret.is_acceptable => \A i \in 1..Len(arg.points) : arg.points[i].residual <= arg.tolerance

(***************************************************************************)
(* distance_to_point of the five primitives, in fixed-point arithmetic:    *)
(* points have integer coordinates, every length is kept times Scale and   *)
(* rounded down, a unit vector is an integer vector over a denominator,    *)
(* tan and cos of a half-angle are fractions.                              *)
(***************************************************************************)
\* a multiple of the denominators that occur (4, 5 and 25)
Scale == 4 * 25

RECURSIVE SqrtBetween(_, _, _)
\* the largest r in lo..hi with r * r <= n
SqrtBetween(n, lo, hi) ==
    IF lo = hi THEN lo
    ELSE LET mid == (lo + hi + 1) \div 2
         IN  IF mid * mid <= n THEN SqrtBetween(n, mid, hi)
             ELSE SqrtBetween(n, lo, mid - 1)

\* np.sqrt, rounded down
Sqrt(n) == SqrtBetween(n, 0, 4096)

\* np.linalg.norm of a vector of scaled lengths
Norm(v) == Sqrt(Dot(v, v))

\* point - origin as scaled lengths
Offset(point, origin) == [k \in 1..3 |-> Scale * (point[k] - origin[k])]

\* np.dot(v, a) and t * a for a unit vector a
Along(v, a) == Dot(v, a.num) \div a.den
Times(t, a) == [k \in 1..3 |-> (t * a.num[k]) \div a.den]

\* primitives.py lines 48-50
PlaneDistance(f, point) == Abs(Along(Offset(point, f.point), f.normal))

\* primitives.py lines 92-103
CylinderDistance(f, point) ==
    LET v == Offset(point, f.axis_point)
        proj == Times(Along(v, f.axis_direction), f.axis_direction)
        perp_dist == Norm(VSub(v, proj))
    IN  Abs(perp_dist - Scale * f.radius)

\* primitives.py lines 146-148
SphereDistance(f, point) == Abs(Norm(Offset(point, f.center)) - Scale * f.radius)

\* primitives.py lines 181-202
ConeDistance(f, point) ==
    LET v == Offset(point, f.apex)
        proj_length == Along(v, f.axis_direction)
        expected_r == (proj_length * f.tan[1]) \div f.tan[2]
        actual_r == Norm(VSub(v, Times(proj_length, f.axis_direction)))
    IN  IF proj_length <= 0 THEN Norm(v)
        ELSE (Abs(actual_r - expected_r) * f.cos[1]) \div f.cos[2]

\* primitives.py lines 244-267
TorusDistance(f, point) ==
    LET v == Offset(point, f.center)
        v_in_plane == VSub(v, Times(Along(v, f.axis), f.axis))
        d_in_plane == Norm(v_in_plane)
        major_point == [k \in 1..3 |-> (f.major_radius * Scale * v_in_plane[k]) \div d_in_plane]
        dist_to_major == Norm(VSub(v, major_point))
    IN  IF d_in_plane = 0
        THEN Abs(Sqrt(Sq(Scale * f.major_radius) + Sq(Along(v, f.axis))) - Scale * f.minor_radius)
        ELSE Abs(dist_to_major - Scale * f.minor_radius)

ZAxis == [num |-> <<0, 0, 1>>, den |-> 1]
Slanted == [num |-> <<3, 4, 0>>, den |-> 5]

\* the primitives tried, with valid parameters: unit normal or axis, positive
\* radii, a half-angle with tan 3/4 and cos 4/5; one torus is a ring, the
\* tube of the other crosses the axis (minor radius above major radius)
Primitives ==
    {[type |-> "plane", point |-> <<0, 0, 3>>, normal |-> ZAxis],
     [type |-> "plane", point |-> <<0, 0, 0>>, normal |-> Slanted],
     [type |-> "cylinder", axis_point |-> <<0, 0, 0>>, axis_direction |-> ZAxis, radius |-> 5],
     [type |-> "sphere", center |-> <<0, 0, 0>>, radius |-> 5],
     [type |-> "cone", apex |-> <<0, 0, 0>>, axis_direction |-> ZAxis,
      tan |-> <<3, 4>>, cos |-> <<4, 5>>],
     [type |-> "torus", center |-> <<0, 0, 0>>, axis |-> ZAxis,
      major_radius |-> 5, minor_radius |-> 3],
     [type |-> "torus", center |-> <<0, 0, 0>>, axis |-> ZAxis,
      major_radius |-> 4, minor_radius |-> 5]}

\* the points tried
QueryPoints ==
    {<<x, y, z>> : x \in {-3, 0, 1, 3, 4}, y \in {-4, 0, 4}, z \in {-4, -3, 0, 3, 4}}

\* the point lies exactly on the surface of the primitive, by the equation
\* of the surface
OnSurface(f, p) ==
    CASE f.type = "plane" -> Dot(VSub(p, f.point), f.normal.num) = 0
      [] f.type = "cylinder" -> Sq(p[1]) + Sq(p[2]) = Sq(f.radius)
      [] f.type = "sphere" -> Dot(VSub(p, f.center), VSub(p, f.center)) = Sq(f.radius)
      [] f.type = "cone" ->
            /\ p[3] >= 0
            /\ Sq(f.tan[2]) * (Sq(p[1]) + Sq(p[2])) = Sq(f.tan[1]) * Sq(p[3])
      [] f.type = "torus" ->
            Sq(Dot(p, p) + Sq(f.major_radius) - Sq(f.minor_radius))
                = 4 * Sq(f.major_radius) * (Sq(p[1]) + Sq(p[2]))

distance_to_point(f, p) ==
    CASE f.type = "plane" -> PlaneDistance(f, p)
      [] f.type = "cylinder" -> CylinderDistance(f, p)
      [] f.type = "sphere" -> SphereDistance(f, p)
      [] f.type = "cone" -> ConeDistance(f, p)
      [] f.type = "torus" -> TorusDistance(f, p)

DistanceInit ==
    /\ arg \in [primitive : Primitives, point : QueryPoints]
    /\ ret = <<>>
    /\ upc = "call"
    /\ CoreIdle /\ ConcurrentIdle /\ ServiceIdle

\* primitive.distance_to_point(point)
DistanceToPoint ==
    /\ upc = "call"
    /\ ret' = [primitive |-> distance_to_point(arg.primitive, arg.point), recognizer |-> -1]
    /\ upc' = "measured"
    /\ UNCHANGED arg
    /\ UNCHANGED NotCall

\* C24: for each of the five primitive types with valid parameters,
\* distance_to_point is non-negative for every point and is 0 for every
\* point that lies exactly on the surface of the primitive.
C24_DistanceZeroOnSurface ==
    upc = "measured" =>
        /\ ret.primitive >= 0
        /\ OnSurface(arg.primitive, arg.point) => ret.primitive = 0

\* the tube of the torus stays clear of its axis
IsRing(f) == f.type = "torus" => f.major_radius > f.minor_radius

\* the same for every primitive but a torus whose tube crosses the axis:
\* there the distance is taken to the nearer half of the tube only
DistanceZeroOnSurfaceOfRing ==
    (upc = "measured" /\ IsRing(arg.primitive)) =>
        /\ ret.primitive >= 0
        /\ OnSurface(arg.primitive, arg.point) => ret.primitive = 0

\* a point on the surface of a ring torus, measured
RingSurfaceMeasured ==
    /\ upc = "measured"
    /\ arg.primitive.type = "torus"
    /\ IsRing(arg.primitive)
    /\ OnSurface(arg.primitive, arg.point)
    /\ ret.primitive = 0

(***************************************************************************)
(* The recognizer's own distances, used for the inliers and for            *)
(* fitting_error, next to distance_to_point of the primitive it builds.    *)
(* The floor 1e-10 of the code is below the resolution kept here: it is    *)
(* the length 0.                                                           *)
(***************************************************************************)
Max(a, b) == IF a >= b THEN a ELSE b

\* feature_recognizer.py lines 169 and 196
plane_distances(f, point) == Abs(Along(Offset(point, f.point), f.normal))

\* feature_recognizer.py lines 357-366
cylinder_distances(f, point) ==
    LET v == Offset(point, f.axis_point)
        proj == Times(Along(v, f.axis_direction), f.axis_direction)
    IN  Abs(Norm(VSub(v, proj)) - Scale * f.radius)

\* feature_recognizer.py lines 419 and 448
sphere_distances(f, point) == Abs(Norm(Offset(point, f.center)) - Scale * f.radius)

\* feature_recognizer.py lines 606-622
cone_distances(f, point) ==
    LET v == Offset(point, f.apex)
        proj_lengths == Max(Along(v, f.axis_direction), 0)
        expected_r == (proj_lengths * f.tan[1]) \div f.tan[2]
        actual_r == Norm(VSub(v, Times(proj_lengths, f.axis_direction)))
    IN  (Abs(actual_r - expected_r) * f.cos[1]) \div f.cos[2]

\* feature_recognizer.py lines 713-728
torus_distances(f, point) ==
    LET v == Offset(point, f.center)
        perp == VSub(v, Times(Along(v, f.axis), f.axis))
        d_in_plane == Norm(perp)
        major_circle_points ==
            IF d_in_plane = 0 THEN <<0, 0, 0>>
            ELSE [k \in 1..3 |-> (f.major_radius * Scale * perp[k]) \div d_in_plane]
    IN  Abs(Norm(VSub(v, major_circle_points)) - Scale * f.minor_radius)

recognizer_distance(f, p) ==
    CASE f.type = "plane" -> plane_distances(f, p)
      [] f.type = "cylinder" -> cylinder_distances(f, p)
      [] f.type = "sphere" -> sphere_distances(f, p)
      [] f.type = "cone" -> cone_distances(f, p)
      [] f.type = "torus" -> torus_distances(f, p)

\* the recognizer's distance of the same point to the same parameters
RecognizerDistance ==
    /\ upc = "measured"
    /\ ret' = [ret EXCEPT !.recognizer = recognizer_distance(arg.primitive, arg.point)]
    /\ upc' = "compared"
    /\ UNCHANGED arg
    /\ UNCHANGED NotCall

CompareNext == DistanceToPoint \/ RecognizerDistance

CompareSpec == DistanceInit /\ [][CompareNext]_vars

\* C29: for each primitive type the distance the recognizer uses for inliers
\* and fitting_error equals distance_to_point of the primitive built from
\* the same parameters, for a cone and a point behind the apex included
\* (both the distance to the apex) and for a torus and a point on its axis.
C29_DistancesAgree ==
    upc = "compared" => ret.recognizer = ret.primitive

\* the point is behind the apex of a cone, or on the axis of a torus
BehindApex ==
    /\ arg.primitive.type = "cone"
    /\ Dot(VSub(arg.point, arg.primitive.apex), arg.primitive.axis_direction.num) <= 0
    /\ arg.point # arg.primitive.apex

OnTorusAxis ==
    /\ arg.primitive.type = "torus"
    /\ arg.point[1] = 0 /\ arg.point[2] = 0

\* the two distances agree everywhere else
DistancesAgreeElsewhere ==
    (upc = "compared" /\ ~BehindApex /\ ~OnTorusAxis) => ret.recognizer = ret.primitive

\* a point in front of the apex of a cone and off its surface, compared
ConeCompared ==
    /\ upc = "compared"
    /\ arg.primitive.type = "cone"
    /\ ~BehindApex
    /\ ret.primitive > 0
    /\ ret.recognizer = ret.primitive

(***************************************************************************)
(* The drawing-to-kcl backend: InMemoryKclStorage and the two handlers     *)
(* that write to it.  The handlers are coroutines on one event loop: a     *)
(* handler gives way to the others at its awaits only, so the code between *)
(* two awaits is one step.  A code is a sequence of code points.           *)
(***************************************************************************)
MaxRequests == 3

\* the codes tried: the empty one, an ASCII one, a longer one outside ASCII
Codes == {<<>>, <<97>>, <<233, 8364, 233>>}

\* what get_code returns for an id that was never issued
NoCode == <<-1>>

RECURSIVE Str(_)
\* str(n), the decimal digits of n
Str(n) == IF n < 10 THEN <<n>> ELSE Str(n \div 10) \o <<n % 10>>

\* storage._versions[version_id] = code
SetItem(versions, version_id, code) ==
    {e \in versions : e[1] # version_id} \cup {<<version_id, code>>}

\* storage.save_code(code): the storage afterwards and the id returned
save_code_reuse(s, code) ==
    LET version_id == Str(s.counter)
    IN  [storage |-> [versions |-> SetItem(s.versions, version_id, code),
                      order |-> Append(s.order, version_id),
                      counter |-> s.counter],
         version_id |-> version_id]

save_code(s, code) ==
    LET counter == s.counter + 1
        version_id == Str(counter)
    IN  [storage |-> [versions |-> SetItem(s.versions, version_id, code),
                      order |-> Append(s.order, version_id),
                      counter |-> counter],
         version_id |-> version_id]

\* storage.get_code(version_id)
get_code(s, version_id) ==
    IF \E e \in s.versions : e[1] = version_id
    THEN (CHOOSE e \in s.versions : e[1] = version_id)[2]
    ELSE NoCode

\* storage.list_versions()
list_versions(s) ==
    [k \in 1..Len(s.order) |-> [id |-> s.order[k], code |-> get_code(s, s.order[k])]]

NewRequest == [kind |-> "none", pos |-> "new"]

ServiceInit ==
    /\ storage = EmptyStorage
    /\ requests = [i \in 1..MaxRequests |-> NewRequest]
    /\ save_log = <<>>
    /\ reply = <<>>
    /\ CoreIdle /\ ConcurrentIdle /\ CallIdle

Response(i, status, version_id, kcl_code) ==
    [req |-> i, kind |-> requests[i].kind, status |-> status, id |-> version_id,
     kcl_code |-> kcl_code]

\* a well-formed request reaches its handler, which runs up to its first await
Arrive(i, kind) ==
    /\ requests[i].pos = "new"
    /\ \A j \in 1..(i - 1) : requests[j].pos # "new"
    /\ requests' = [requests EXCEPT
                       ![i] = [kind |-> kind,
                               pos |-> IF kind = "convert" THEN "read" ELSE "llm"]]
    /\ UNCHANGED <<storage, save_log, reply>>
    /\ UNCHANGED NotService

\* a request without its file, or without kcl_code or command, is answered
\* with a validation error before the handler is called
Reject(i, kind) ==
    /\ requests[i].pos = "new"
    /\ \A j \in 1..(i - 1) : requests[j].pos # "new"
    /\ requests' = [requests EXCEPT ![i] = [kind |-> kind, pos |-> "done"]]
    /\ reply' = Append(reply, [req |-> i, kind |-> kind, status |-> 422,
                               id |-> NoCode, kcl_code |-> NoCode])
    /\ UNCHANGED <<storage, save_log>>
    /\ UNCHANGED NotService

\* convert: await file.read() returns, the handler awaits the LLM
ReadFile(i) ==
    /\ requests[i].pos = "read"
    /\ requests' = [requests EXCEPT ![i].pos = "llm"]
    /\ UNCHANGED <<storage, save_log, reply>>
    /\ UNCHANGED NotService

\* convert: the LLM answers, the code is saved and returned with its id
ConvertSave(i, kcl_code) ==
    /\ requests[i].pos = "llm"
    /\ requests[i].kind = "convert"
    /\ LET saved == save_code(storage, kcl_code)
       IN  /\ storage' = saved.storage
           /\ save_log' = Append(save_log, [id |-> saved.version_id, code |-> kcl_code])
           /\ reply' = Append(reply, Response(i, 200, saved.version_id, kcl_code))
    /\ requests' = [requests EXCEPT ![i].pos = "done"]
    /\ UNCHANGED NotService

\* modify: the LLM answers, the modified code is saved and returned
ModifySave(i, modified) ==
    /\ requests[i].pos = "llm"
    /\ requests[i].kind = "modify"
    /\ LET saved == save_code(storage, modified)
       IN  /\ storage' = saved.storage
           /\ save_log' = Append(save_log, [id |-> saved.version_id, code |-> modified])
    /\ reply' = Append(reply, Response(i, 200, NoCode, modified))
    /\ requests' = [requests EXCEPT ![i].pos = "done"]
    /\ UNCHANGED NotService

\* the LLM call raises: the exception leaves the handler before save_code
LlmFails_Saves(i) ==
    /\ requests[i].pos = "llm"
    /\ requests' = [requests EXCEPT ![i].pos = "done"]
    /\ reply' = Append(reply, Response(i, 500, NoCode, NoCode))
    /\ storage' = save_code(storage, <<>>).storage
    /\ UNCHANGED save_log
    /\ UNCHANGED NotService

LlmFails(i) ==
    /\ requests[i].pos = "llm"
    /\ requests' = [requests EXCEPT ![i].pos = "done"]
    /\ reply' = Append(reply, Response(i, 500, NoCode, NoCode))
    /\ UNCHANGED <<storage, save_log>>
    /\ UNCHANGED NotService

ServiceNext ==
    \E i \in 1..MaxRequests :
        \/ \E kind \in {"convert", "modify"} : Arrive(i, kind)
        \/ \E kind \in {"convert", "modify"} : Reject(i, kind)
        \/ ReadFile(i)
        \/ \E kcl_code \in Codes : ConvertSave(i, kcl_code)
        \/ \E modified \in Codes : ModifySave(i, modified)
        \/ LlmFails(i)

ServiceSpec == ServiceInit /\ [][ServiceNext]_vars

\* the ids asked for: every id the storage can issue and some it cannot
ProbeIds == {Str(n) : n \in 0..(MaxRequests + 1)} \cup {<<>>, <<0, 1>>}

IssuedIds(log) == {log[k].id : k \in 1..Len(log)}

\* what the storage answers, against the record of the save_code calls
StorageState ==
    /\ \A j, k \in 1..Len(save_log) : save_log[j].id = save_log[k].id => j = k
    /\ \A k \in 1..Len(save_log) : get_code(storage, save_log[k].id) = save_log[k].code
    /\ \A id \in ProbeIds \ IssuedIds(save_log) : get_code(storage, id) = NoCode
    /\ list_versions(storage) = save_log

\* a step keeps every version there is, and its place in the order
VersionsKept ==
    /\ \A e \in storage.versions : e \in storage'.versions
    /\ Len(storage'.order) >= Len(storage.order)
    /\ \A k \in 1..Len(storage.order) : storage'.order[k] = storage.order[k]

\* C25: on InMemoryKclStorage the ids returned by save_code are pairwise
\* distinct, get_code(id) returns exactly the code saved under that id
\* (empty and non-ASCII codes included), get_code of an id never issued
\* returns None, list_versions has one entry per save_code call, in call
\* order, and no operation changes or removes an existing version.
C25_Storage == []StorageState /\ [][VersionsKept]_vars

\* three saves, the empty code and the one outside ASCII among them, one code
\* saved twice under two ids
ThreeVersionsSaved ==
    /\ Len(save_log) = MaxRequests
    /\ \E j, k \in 1..Len(save_log) :
          /\ j # k
          /\ save_log[j].code = save_log[k].code
          /\ save_log[j].code = <<>>
    /\ \E k \in 1..Len(save_log) : Len(get_code(storage, save_log[k].id)) > 1

\* the request that a step answers, if it answers one
Answered(i) == requests[i].pos # "done" /\ requests'[i].pos = "done"

LastReply == reply'[Len(reply')]

\* the step appends exactly one version, holding the given code
AppendsOne(kcl_code) ==
    /\ Len(storage'.order) = Len(storage.order) + 1
    /\ storage'.versions \ storage.versions
          = {<<storage'.order[Len(storage'.order)], kcl_code>>}
    /\ storage.versions \subseteq storage'.versions
    /\ \A k \in 1..Len(storage.order) :
          storage'.order[k] # storage'.order[Len(storage'.order)]

\* C26: under every interleaving of POST /convert and PATCH /modify requests
\* on one storage, each successful convert appends exactly one version whose
\* id and code are the id and kcl_code of its response, with an id no other
\* version has; each successful modify appends exactly one version holding
\* the code it returns; a request rejected with a validation error or whose
\* LLM call fails appends nothing.
C26_OneVersionPerSuccess ==
    [][/\ \A i \in 1..MaxRequests :
            Answered(i) =>
                /\ LastReply.req = i
                /\ LastReply.status = 200 =>
                      /\ AppendsOne(LastReply.kcl_code)
                      /\ LastReply.kind = "convert" =>
                            LastReply.id = storage'.order[Len(storage'.order)]
                /\ LastReply.status # 200 => storage' = storage
       /\ (\A i \in 1..MaxRequests : ~Answered(i)) => storage' = storage]_vars

\* a convert and a modify that overlapped and both succeeded, the later
\* request answered first, next to a request that failed
InterleavedAnswered ==
    /\ Len(reply) = MaxRequests
    /\ reply[1].req > reply[2].req
    /\ reply[1].status = 200 /\ reply[2].status = 200
    /\ reply[1].kind # reply[2].kind
    /\ reply[MaxRequests].status = 500
    /\ Len(storage.order) = 2

(***************************************************************************)
(* run_kcl of the KCL runtime: the text the command line tool printed is   *)
(* described by what json.loads makes of it, an object by what each of the *)
(* three fields of KclRunResult holds.                                     *)
(***************************************************************************)
\* "ok": absent, a boolean, or a value that is no boolean
OkFields == {"absent", "true", "false", "invalid"}
\* "errors": absent, a list of strings (empty or not), or something else
ErrorsFields == {"absent", "empty", "messages", "invalid"}
\* "preview": absent, null, an object that validates as KclPreview, or not
PreviewFields == {"absent", "null", "preview", "invalid"}

JsonObjects == [json : {"object"}, ok : OkFields, errors : ErrorsFields, preview : PreviewFields]

\* a text that is no JSON, the JSON values that are no object, the objects
Texts ==
    {[json |-> j, ok |-> "absent", errors |-> "absent", preview |-> "absent"] :
        j \in {"invalid", "null", "number", "string", "array"}}
    \cup JsonObjects

\* how the process ended: its exit status, what it printed, its error output
CliOutcomes == [returncode : {0, 1}, stdout : Texts, stderr : {"", "message"}]

KclRunResult(ok, errors, preview) == [ok |-> ok, errors |-> errors, preview |-> preview]

\* _run_cli: the text handed to run_kcl
run_cli(completed) ==
    IF completed.returncode # 0
    THEN [json |-> "object", ok |-> "false", errors |-> "messages", preview |-> "null",
          messages |-> <<IF completed.stderr # "" THEN completed.stderr
                         ELSE "kcl-run process failed">>]
    ELSE completed.stdout @@ [messages |-> <<"message">>]

\* json.loads(raw) raises JSONDecodeError
JSONDecodeError(raw) == raw.json = "invalid"

\* KclRunResult(**payload) raises TypeError: the payload is no mapping
NotAMapping(payload) == payload.json # "object"

\* KclRunResult(**payload) raises ValidationError
ValidationError(payload) ==
    \/ payload.ok \in {"absent", "invalid"}
    \/ payload.errors = "invalid"
    \/ payload.preview = "invalid"

\* run_kcl, when it returns
run_kcl(completed) ==
    LET raw == run_cli(completed)
    IN  IF JSONDecodeError(raw)
        THEN KclRunResult(FALSE, <<"Invalid JSON from kcl-run">>, "None")
        ELSE IF ValidationError(raw)
        THEN KclRunResult(FALSE, <<"Invalid schema from kcl-run">>, "None")
        ELSE KclRunResult(raw.ok = "true",
                          IF raw.errors = "messages" THEN raw.messages ELSE <<>>,
                          IF raw.preview = "preview" THEN "preview" ELSE "None")

RunInit ==
    /\ arg \in CliOutcomes
    /\ ret = <<>>
    /\ upc = "call"
    /\ CoreIdle /\ ConcurrentIdle /\ ServiceIdle

\* run_kcl(code) returns a KclRunResult
RunKcl ==
    /\ upc = "call"
    /\ LET raw == run_cli(arg)
       IN  JSONDecodeError(raw) \/ ~NotAMapping(raw)
    /\ ret' = run_kcl(arg)
    /\ upc' = "returned"
    /\ UNCHANGED arg
    /\ UNCHANGED NotCall

\* the TypeError of KclRunResult(**payload) is caught by neither except clause
RunKclRaises ==
    /\ upc = "call"
    /\ LET raw == run_cli(arg)
       IN  ~JSONDecodeError(raw) /\ NotAMapping(raw)
    /\ ret' = <<"TypeError">>
    /\ upc' = "raised"
    /\ UNCHANGED arg
    /\ UNCHANGED NotCall

RunNext == RunKcl \/ RunKclRaises

RunSpec == RunInit /\ [][RunNext]_vars

\* the output is no JSON, or JSON that is no valid KclRunResult, or the
\* process exited non-zero
RunFailed ==
    \/ arg.returncode # 0
    \/ arg.stdout.json # "object"
    \/ ValidationError(arg.stdout)

ErrorResult ==
    /\ ret.ok = FALSE
    /\ ret.errors # <<>>
    /\ ret.preview = "None"

\* C27: run_kcl returns a KclRunResult and never raises, for every string
\* the command line layer can return; when the output is not valid JSON, or
\* valid JSON that does not validate as a KclRunResult (missing fields,
\* wrong types, a JSON value that is no object), or the process exits
\* non-zero, the result has ok == False, a non-empty errors list and
\* preview == None.
C27_RunKclNeverRaises ==
    upc # "call" =>
        /\ upc = "returned"
        /\ RunFailed => ErrorResult

\* the same when run_kcl returns
ErrorResultWhenReturned ==
    (upc = "returned" /\ RunFailed) => ErrorResult

\* C28: in every detector but the torus one a refinement step over all
\* inliers runs after the best hypothesis is selected and before
\* fitting_error is computed, and the stored primitive holds the refined
\* parameters; only a torus carries the unrefined hypothesis.
C28_RefinedBeforeError ==
    \A k \in 1..Len(features) :
        features[k].feature_type # "torus" => features[k].params = "refined"

\* a cone always carries the best RANSAC hypothesis, as a torus does
ConeNeverRefined ==
    \A k \in 1..Len(features) :
        features[k].feature_type \in {"cone", "torus"} => features[k].params = "ransac"

\* a plane is always refined; a cylinder or sphere is unless its solve raised
PlaneRefined ==
    \A k \in 1..Len(features) :
        features[k].feature_type = "plane" => features[k].params = "refined"

ConeReturned ==
    \E k \in 1..Len(features) : features[k].feature_type = "cone"

\* whenever fit returned, n_u and n_v are within 4..20
GridSizeInRange ==
    fitted # NoFit => (fitted.n_u \in 4..20 /\ fitted.n_v \in 4..20)

\* C30: for every non-empty point set and positive density
\* _compute_grid_size returns n_u and n_v within 4..20 and never raises,
\* points that all coincide or lie on a line included; the grids fit builds
\* have exactly n_u by n_v entries.
C30_GridSize ==
    /\ fpc # "raised"
    /\ GridSizeInRange

\* points close to a line: the grid is as long and as narrow as it can be
NarrowGridFitted ==
    /\ fitted # NoFit
    /\ fit_points.sqrt_ratio[1] > fit_points.sqrt_ratio[2]
    /\ fitted.n_u = 20 /\ fitted.n_v = 4

=============================================================================
